---- MODULE Spec2Model ----
(***************************************************************************)
(* Model of the digital-tape ("fita digital") core of                      *)
(* afr_supervisorio_ciclos: the tape readers (AFR13, Sercon JP LAC210,     *)
(* Sercon TDS), the DataObjectFitaDigital that drives them, and the        *)
(* timestamp reconstruction.                                               *)
(*                                                                         *)
(* Text is modelled character by character: a Python str is a sequence of  *)
(* one-character strings, so that strip/split/regular expressions/float()  *)
(* and strptime() are computed on the characters, as the code does.        *)
(* A Python dict is a function whose DOMAIN is its set of keys; {} is the  *)
(* empty function <<>>.                                                    *)
(***************************************************************************)
EXTENDS Integers, Sequences, FiniteSets, TLC

VARIABLES
    op,         \* the last call made: its name
    args,       \* the arguments of the last call
    raised,     \* the exception the last call raised, "none" when it returned
    returned,   \* what the last call returned (meaningful when raised = "none")
    calls,      \* the methods the last call ran, in order
    readers,    \* the tape readers constructed: reader name -> its attributes
    do,         \* the attributes of the DataObjectFitaDigital
    hist        \* reader name -> outcome of its latest read_header, <<>> before any

vars == <<op, args, raised, returned, calls, readers, do, hist>>

(***************************************************************************)
(* Python str primitives                                                   *)
(***************************************************************************)
Digits == {"0", "1", "2", "3", "4", "5", "6", "7", "8", "9"}

UpperLetters ==
    {"A", "B", "C", "D", "E", "F", "G", "H", "I", "J", "K", "L", "M",
     "N", "O", "P", "Q", "R", "S", "T", "U", "V", "W", "X", "Y", "Z"}

LowerLetters ==
    {"a", "b", "c", "d", "e", "f", "g", "h", "i", "j", "k", "l", "m",
     "n", "o", "p", "q", "r", "s", "t", "u", "v", "w", "x", "y", "z"}

\* str.isspace(): the whitespace of the modelled alphabet
IsSpace(c) == c \in {" ", "\t", "\n", "\r"}

IsDigit(c) == c \in Digits

DigitVal(c) ==
    CASE c = "0" -> 0 [] c = "1" -> 1 [] c = "2" -> 2 [] c = "3" -> 3
      [] c = "4" -> 4 [] c = "5" -> 5 [] c = "6" -> 6 [] c = "7" -> 7
      [] c = "8" -> 8 [] c = "9" -> 9

DigitChar(n) ==
    CASE n = 0 -> "0" [] n = 1 -> "1" [] n = 2 -> "2" [] n = 3 -> "3"
      [] n = 4 -> "4" [] n = 5 -> "5" [] n = 6 -> "6" [] n = 7 -> "7"
      [] n = 8 -> "8" [] n = 9 -> "9"

AllDigits(s) == \A i \in 1..Len(s) : IsDigit(s[i])

\* int(s) of a string of decimal digits
RECURSIVE ToInt(_)
ToInt(s) ==
    IF s = <<>> THEN 0
    ELSE 10 * ToInt(SubSeq(s, 1, Len(s) - 1)) + DigitVal(s[Len(s)])

\* f"{n:0<width>d}" for n >= 0
RECURSIVE ZeroPad(_, _)
ZeroPad(n, width) ==
    IF width <= 1 /\ n < 10 THEN <<DigitChar(n)>>
    ELSE ZeroPad(n \div 10, width - 1) \o <<DigitChar(n % 10)>>

\* s[i:] with a 0-based Python index i >= 0
From(s, i) == SubSeq(s, i + 1, Len(s))

\* s[:i] with a 0-based Python index i >= 0
Upto(s, i) == SubSeq(s, 1, IF i < Len(s) THEN i ELSE Len(s))

RECURSIVE LStrip(_)
LStrip(s) == IF s # <<>> /\ IsSpace(s[1]) THEN LStrip(Tail(s)) ELSE s

RECURSIVE RStrip(_)
RStrip(s) ==
    IF s # <<>> /\ IsSpace(s[Len(s)]) THEN RStrip(SubSeq(s, 1, Len(s) - 1)) ELSE s

\* str.strip()
Strip(s) == RStrip(LStrip(s))

\* str.startswith(p)
StartsWith(s, p) == Len(p) <= Len(s) /\ SubSeq(s, 1, Len(p)) = p

\* p in s  (substring test)
Contains(s, p) ==
    \E i \in 0..(Len(s) - Len(p)) : SubSeq(s, i + 1, i + Len(p)) = p

\* the length of the leading run of non-whitespace characters
RECURSIVE WordLen(_)
WordLen(s) == IF s = <<>> \/ IsSpace(s[1]) THEN 0 ELSE 1 + WordLen(Tail(s))

\* str.split(): the maximal runs of non-whitespace characters
RECURSIVE Split(_)
Split(s) ==
    LET t == LStrip(s)
        n == WordLen(t)
    IN  IF t = <<>> THEN <<>>
        ELSE <<SubSeq(t, 1, n)>> \o Split(From(t, n))

\* the length of the prefix of s before the first occurrence of character c
RECURSIVE FieldLen(_, _)
FieldLen(s, c) == IF s = <<>> \/ s[1] = c THEN 0 ELSE 1 + FieldLen(Tail(s), c)

\* str.split(c) for a one-character separator c: fields may be empty
RECURSIVE SplitOn(_, _)
SplitOn(s, c) ==
    LET n == FieldLen(s, c)
    IN  IF n = Len(s) THEN <<s>>
        ELSE <<SubSeq(s, 1, n)>> \o SplitOn(From(s, n + 1), c)

\* sep.join(parts)
RECURSIVE Join(_, _)
Join(parts, sep) ==
    IF parts = <<>> THEN <<>>
    ELSE IF Len(parts) = 1 THEN parts[1]
    ELSE parts[1] \o sep \o Join(Tail(parts), sep)

(***************************************************************************)
(* datetime: the proleptic Gregorian calendar of Python's datetime module  *)
(***************************************************************************)
IsLeap(y) == y % 4 = 0 /\ (y % 100 # 0 \/ y % 400 = 0)

DaysInMonth(y, m) ==
    IF m = 2 THEN (IF IsLeap(y) THEN 29 ELSE 28)
    ELSE IF m \in {4, 6, 9, 11} THEN 30 ELSE 31

datetime(y, mo, d, h, mi, s) ==
    [year |-> y, month |-> mo, day |-> d, hour |-> h, minute |-> mi, second |-> s]

\* a < b on datetime objects
DtLess(a, b) ==
    LET ka == <<a.year, a.month, a.day, a.hour, a.minute, a.second>>
        kb == <<b.year, b.month, b.day, b.hour, b.minute, b.second>>
    IN  \E i \in 1..6 : ka[i] < kb[i] /\ \A j \in 1..(i - 1) : ka[j] = kb[j]

\* dt + timedelta(days=k), k >= 0 (years stay far below datetime.MAXYEAR)
RECURSIVE AddDays(_, _)
AddDays(dt, k) ==
    IF k = 0 THEN dt
    ELSE IF dt.day < DaysInMonth(dt.year, dt.month)
         THEN AddDays([dt EXCEPT !.day = @ + 1], k - 1)
    ELSE IF dt.month < 12
         THEN AddDays([dt EXCEPT !.day = 1, !.month = @ + 1], k - 1)
    ELSE AddDays([dt EXCEPT !.day = 1, !.month = 1, !.year = @ + 1], k - 1)

\* datetime.strptime(t, "%H:%M:%S"): the hour, minute and second fields are
\* one or two digits; every failure (no match, unconverted data, second 60
\* or 61 rejected by the datetime constructor) is a ValueError
strptime_HMS(t) ==
    LET f == SplitOn(t, ":")
        wellFormed == /\ Len(f) = 3
                      /\ \A i \in 1..3 : Len(f[i]) \in {1, 2} /\ AllDigits(f[i])
    IN  IF wellFormed /\ ToInt(f[1]) <= 23 /\ ToInt(f[2]) <= 59 /\ ToInt(f[3]) <= 59
        THEN [exc |-> "none", val |-> datetime(1900, 1, 1, ToInt(f[1]), ToInt(f[2]), ToInt(f[3]))]
        ELSE [exc |-> "ValueError"]

\* the day and month fields of strptime: one or two digits, not zero
DayMonthField(s) == Len(s) \in {1, 2} /\ AllDigits(s) /\ ToInt(s) >= 1

\* a calendar date built by strptime from its three fields
strptime_date(y, m, d) ==
    IF /\ Len(y) = 4 /\ AllDigits(y) /\ ToInt(y) >= 1
       /\ DayMonthField(m) /\ ToInt(m) <= 12
       /\ DayMonthField(d) /\ ToInt(d) <= DaysInMonth(ToInt(y), ToInt(m))
    THEN [exc |-> "none", val |-> datetime(ToInt(y), ToInt(m), ToInt(d), 0, 0, 0)]
    ELSE [exc |-> "ValueError"]

\* datetime.strptime(s, "%d-%m-%Y")
strptime_dmY(s) ==
    LET f == SplitOn(s, "-")
    IN  IF Len(f) = 3 THEN strptime_date(f[3], f[2], f[1]) ELSE [exc |-> "ValueError"]

\* datetime.strptime(s, "%Y-%m-%d")
strptime_Ymd(s) ==
    LET f == SplitOn(s, "-")
    IN  IF Len(f) = 3 THEN strptime_date(f[1], f[2], f[3]) ELSE [exc |-> "ValueError"]

\* dt.strftime("%Y-%m-%d") for a four-digit year
strftime_Ymd(dt) ==
    ZeroPad(dt.year, 4) \o <<"-">> \o ZeroPad(dt.month, 2) \o <<"-">> \o ZeroPad(dt.day, 2)

(***************************************************************************)
(* DataObjectFitaDigital: timestamp reconstruction                         *)
(***************************************************************************)
\* replace_date_in_times without the running day counter: the days already
\* elapsed are not added to the later entries
RECURSIVE replace_date_loop_nocarry(_, _, _)
replace_date_loop_nocarry(upd, i, days_elapsed) ==
    IF i > Len(upd) THEN upd
    ELSE IF DtLess(upd[i], upd[i - 1])
         THEN replace_date_loop_nocarry([upd EXCEPT ![i] = AddDays(upd[i], 1)], i + 1, days_elapsed + 1)
         ELSE replace_date_loop_nocarry(upd, i + 1, days_elapsed)

\* replace_date_in_times with <= for <: an equal time also starts a new day
RECURSIVE replace_date_loop_le(_, _, _)
replace_date_loop_le(upd, i, days_elapsed) ==
    IF i > Len(upd) THEN upd
    ELSE LET shifted == AddDays(upd[i], days_elapsed)
         IN  IF ~DtLess(upd[i - 1], shifted)
             THEN replace_date_loop_le([upd EXCEPT ![i] = AddDays(shifted, 1)], i + 1, days_elapsed + 1)
             ELSE replace_date_loop_le([upd EXCEPT ![i] = shifted], i + 1, days_elapsed)

\* the loop of replace_date_in_times from index i (1-based) on: upd is
\* updated_datetimes, updated in place
RECURSIVE replace_date_loop(_, _, _)
replace_date_loop(upd, i, days_elapsed) ==
    IF i > Len(upd) THEN upd
    ELSE LET shifted == AddDays(upd[i], days_elapsed)
         IN  IF DtLess(shifted, upd[i - 1])
             THEN replace_date_loop([upd EXCEPT ![i] = AddDays(shifted, 1)], i + 1, days_elapsed + 1)
             ELSE replace_date_loop([upd EXCEPT ![i] = shifted], i + 1, days_elapsed)

replace_date_in_times(time_objects, specific_date) ==
    LET date_object == strptime_Ymd(specific_date)
    IN  IF date_object.exc # "none" THEN [exc |-> date_object.exc]
        ELSE LET updated_datetimes ==
                     [i \in 1..Len(time_objects) |->
                         [time_objects[i] EXCEPT !.year = date_object.val.year,
                                                 !.month = date_object.val.month,
                                                 !.day = date_object.val.day]]
             IN  [exc |-> "none", val |-> replace_date_loop(updated_datetimes, 2, 0)]

\* the first index at which strptime fails in the list comprehension of
\* time_to_datetime, 0 when every entry parses; an entry that is no str (a
\* datetime left by an earlier conversion) is a TypeError
strptime_cell(t) == IF "str" \in DOMAIN t THEN strptime_HMS(t.str) ELSE [exc |-> "TypeError"]

FirstFailure(times) ==
    IF \E i \in 1..Len(times) : strptime_cell(times[i]).exc # "none"
    THEN CHOOSE i \in 1..Len(times) :
            /\ strptime_cell(times[i]).exc # "none"
            /\ \A j \in 1..(i - 1) : strptime_cell(times[j]).exc = "none"
    ELSE 0

time_to_datetime(times, start_date) ==
    IF FirstFailure(times) # 0 THEN [exc |-> strptime_cell(times[FirstFailure(times)]).exc]
    ELSE replace_date_in_times([i \in 1..Len(times) |-> strptime_cell(times[i]).val],
                               strftime_Ymd(start_date))

(***************************************************************************)
(* float(): a parsed number is the exact decimal m * 10^e, m not divisible *)
(* by 10 (0 is m = 0, e = 0), so that == on floats is = on these records.  *)
(* The modelled alphabet has no "_" and no non-ASCII digits.               *)
(***************************************************************************)
UpperSeq ==
    <<"A", "B", "C", "D", "E", "F", "G", "H", "I", "J", "K", "L", "M",
      "N", "O", "P", "Q", "R", "S", "T", "U", "V", "W", "X", "Y", "Z">>

LowerSeq ==
    <<"a", "b", "c", "d", "e", "f", "g", "h", "i", "j", "k", "l", "m",
      "n", "o", "p", "q", "r", "s", "t", "u", "v", "w", "x", "y", "z">>

\* str.lower()
Lower(s) ==
    [i \in 1..Len(s) |->
        IF s[i] \in UpperLetters
        THEN LowerSeq[CHOOSE k \in 1..26 : UpperSeq[k] = s[i]]
        ELSE s[i]]

RECURSIVE Normalise(_, _)
Normalise(m, e) ==
    IF m = 0 THEN [k |-> "num", m |-> 0, e |-> 0]
    ELSE IF m % 10 = 0 THEN Normalise(m \div 10, e + 1)
    ELSE [k |-> "num", m |-> m, e |-> e]

\* an optional sign followed by digits: the exponent of a float literal
SignedDigits(s) ==
    LET d == IF s # <<>> /\ s[1] \in {"+", "-"} THEN Tail(s) ELSE s
    IN  d # <<>> /\ AllDigits(d)

SignedInt(s) ==
    IF s[1] = "-" THEN 0 - ToInt(Tail(s))
    ELSE IF s[1] = "+" THEN ToInt(Tail(s)) ELSE ToInt(s)

\* float(s) for a token s without surrounding whitespace:
\* [sign] (digits [. [digits]] | . digits) [(e|E) [sign] digits], or
\* [sign] inf | infinity | nan in any letter case; anything else is a ValueError
float(s) ==
    LET neg  == s # <<>> /\ s[1] = "-"
        body == IF s # <<>> /\ s[1] \in {"+", "-"} THEN Tail(s) ELSE s
        low  == Lower(body)
        ef   == SplitOn(low, "e")
        mf   == SplitOn(ef[1], ".")
        ip   == mf[1]
        fp   == IF Len(mf) = 2 THEN mf[2] ELSE <<>>
        okM  == /\ Len(mf) \in {1, 2}
                /\ AllDigits(ip) /\ AllDigits(fp)
                /\ Len(ip) + Len(fp) >= 1
        okE  == Len(ef) = 1 \/ (Len(ef) = 2 /\ SignedDigits(ef[2]))
        ex   == IF Len(ef) = 2 THEN SignedInt(ef[2]) ELSE 0
        mag  == ToInt(ip \o fp)
    IN  IF low \in {<<"i", "n", "f">>, <<"i", "n", "f", "i", "n", "i", "t", "y">>}
        THEN [exc |-> "none", val |-> [k |-> "inf", m |-> IF neg THEN 0 - 1 ELSE 1, e |-> 0]]
        ELSE IF low = <<"n", "a", "n">>
        THEN [exc |-> "none", val |-> [k |-> "nan", m |-> 0, e |-> 0]]
        ELSE IF okM /\ okE
        THEN [exc |-> "none", val |-> Normalise(IF neg THEN 0 - mag ELSE mag, ex - Len(fp))]
        ELSE [exc |-> "ValueError"]

(***************************************************************************)
(* The tape readers: line classification                                   *)
(***************************************************************************)
Profiles == {"Afr13", "SerconJpLac210", "SerconTds"}

\* \d{2}:\d{2}
IsTime5(s) ==
    /\ Len(s) = 5
    /\ IsDigit(s[1]) /\ IsDigit(s[2]) /\ s[3] = ":" /\ IsDigit(s[4]) /\ IsDigit(s[5])

\* \d{2}:\d{2}:\d{2}
IsTime8(s) == Len(s) = 8 /\ IsTime5(SubSeq(s, 1, 5)) /\ IsTime5(SubSeq(s, 4, 8))

\* -?\d+\.?\d*
IsAfrNumber(s) ==
    LET u  == IF s # <<>> /\ s[1] = "-" THEN Tail(s) ELSE s
        mf == SplitOn(u, ".")
    IN  /\ Len(mf) \in {1, 2}
        /\ mf[1] # <<>> /\ AllDigits(mf[1])
        /\ Len(mf) = 2 => AllDigits(mf[2])

\* [A-Za-z0-9\s-]
IsAfrLabelChar(c) == c \in UpperLetters \cup LowerLetters \cup Digits \/ IsSpace(c) \/ c = "-"

\* the list a measurement row is built from: the time string, then float()
\* of every other token; ValueError when some token is no float
Medicao(hora, valores) ==
    IF \E i \in 2..Len(valores) : float(valores[i]).exc # "none"
    THEN [exc |-> "ValueError"]
    ELSE [exc |-> "none",
          val |-> [i \in 1..Len(valores) |->
                      IF i = 1 THEN [str |-> hora] ELSE float(valores[i]).val]]

AppendData(body_dict, row) == [body_dict EXCEPT !["data"] = Append(@, row)]

AppendFase(body_dict, hora, fase) ==
    [body_dict EXCEPT !["fase"] = Append(@, <<[str |-> hora], fase>>)]

\* ReaderFitaDigitalAfr13._process_phase_line:
\* ^(\d{2}:\d{2}:\d{2})\s+([A-Za-z0-9\s-]+)$ on line.strip()
Afr13_process_phase_line(line, body_dict) ==
    LET s == Strip(line)
        rest == From(s, 8)
    IN  IF /\ Len(s) >= 10
           /\ IsTime8(SubSeq(s, 1, 8))
           /\ IsSpace(s[9])
           /\ \A i \in 1..Len(rest) : IsAfrLabelChar(rest[i])
        THEN [is_phase |-> TRUE,
              body_dict |-> AppendFase(body_dict, SubSeq(s, 1, 8), Strip(rest))]
        ELSE [is_phase |-> FALSE, body_dict |-> body_dict]

\* ReaderFitaDigitalAfr13._process_body_line:
\* ^(\d{2}:\d{2}:\d{2})(?:\s+(-?\d+\.?\d*))+$ on line.strip()
Afr13_process_body_line(line, body_dict) ==
    LET valores == Split(line)
    IN  IF /\ Len(valores) >= 2
           /\ IsTime8(valores[1])
           /\ \A i \in 2..Len(valores) : IsAfrNumber(valores[i])
        THEN LET medicao == Medicao(valores[1], valores)
             IN  IF medicao.exc = "none" THEN AppendData(body_dict, medicao.val)
                 ELSE body_dict
        ELSE body_dict

\* group 2 of ^\s*(\d{2}:\d{2})\s+(.+?)\s*$ : the text after the time and the
\* whitespace that follows it, <<>> when the line does not match
Lac210PhaseGroup2(line) ==
    LET t == LStrip(line)
        g == Strip(From(t, 5))
    IN  IF /\ Len(t) >= 7
           /\ IsTime5(SubSeq(t, 1, 5))
           /\ IsSpace(t[6])
           /\ \A i \in 1..Len(g) : g[i] # "\n"
        THEN g
        ELSE <<>>

\* _process_phase_line of LAC210 without the float test on the first token
SerconJpLac210_process_phase_line_notiebreak(line, body_dict) ==
    LET g == Lac210PhaseGroup2(line)
    IN  IF g = <<>> THEN [is_phase |-> FALSE, body_dict |-> body_dict]
        ELSE [is_phase |-> TRUE,
              body_dict |-> AppendFase(body_dict,
                                       SubSeq(LStrip(line), 1, 5) \o <<":", "0", "0">>,
                                       Strip(g))]

\* ReaderFitaDigitalSerconJpLac210._process_phase_line
SerconJpLac210_process_phase_line(line, body_dict) ==
    LET g == Lac210PhaseGroup2(line)
    IN  IF g = <<>> THEN [is_phase |-> FALSE, body_dict |-> body_dict]
        ELSE IF float(Split(g)[1]).exc = "none"
        THEN [is_phase |-> FALSE, body_dict |-> body_dict]
        ELSE [is_phase |-> TRUE,
              body_dict |-> AppendFase(body_dict,
                                       SubSeq(LStrip(line), 1, 5) \o <<":", "0", "0">>,
                                       Strip(g))]

\* ReaderFitaDigitalSerconJpLac210._process_body_line
SerconJpLac210_process_body_line(line, body_dict) ==
    LET valores == Split(line)
    IN  IF Len(valores) < 4 THEN body_dict
        ELSE LET medicao == Medicao(valores[1] \o <<":", "0", "0">>, valores)
             IN  IF medicao.exc = "none" THEN AppendData(body_dict, medicao.val)
                 ELSE body_dict

\* group 2 of ^\s*(\d{2}:\d{2})\s+-\s+(.+?)\s*$ on line.strip(), <<>> when the
\* line does not match
TdsPhaseGroup2(line) ==
    LET s == Strip(line)
        d == LStrip(From(s, 5))
        g == IF d = <<>> THEN <<>> ELSE Strip(Tail(d))
    IN  IF /\ Len(s) >= 7
           /\ IsTime5(SubSeq(s, 1, 5))
           /\ IsSpace(s[6])
           /\ Len(d) >= 2 /\ d[1] = "-" /\ IsSpace(d[2])
           /\ \A i \in 1..Len(g) : g[i] # "\n"
        THEN g
        ELSE <<>>

\* ReaderFitaDigitalSerconTds._process_phase_line
SerconTds_process_phase_line(line, body_dict) ==
    LET g == TdsPhaseGroup2(line)
    IN  IF g = <<>> THEN [is_phase |-> FALSE, body_dict |-> body_dict]
        ELSE [is_phase |-> TRUE,
              body_dict |-> AppendFase(body_dict,
                                       SubSeq(Strip(line), 1, 5) \o <<":", "0", "0">>,
                                       Strip(g))]

\* ReaderFitaDigitalSerconTds._process_body_line
SerconTds_process_body_line(line, body_dict) ==
    LET valores == Split(line)
    IN  IF Len(valores) > 3
        THEN LET medicao == Medicao(valores[1] \o <<":", "0", "0">>, valores)
             IN  IF medicao.exc = "none" THEN AppendData(body_dict, medicao.val)
                 ELSE body_dict
        ELSE body_dict

\* dispatch on the reader's class
_process_phase_line(cls, line, body_dict) ==
    CASE cls = "Afr13" -> Afr13_process_phase_line(line, body_dict)
      [] cls = "SerconJpLac210" -> SerconJpLac210_process_phase_line(line, body_dict)
      [] cls = "SerconTds" -> SerconTds_process_phase_line(line, body_dict)

_process_body_line(cls, line, body_dict) ==
    CASE cls = "Afr13" -> Afr13_process_body_line(line, body_dict)
      [] cls = "SerconJpLac210" -> SerconJpLac210_process_body_line(line, body_dict)
      [] cls = "SerconTds" -> SerconTds_process_body_line(line, body_dict)

(***************************************************************************)
(* The tape readers: read_body and get_state                               *)
(***************************************************************************)
\* the first line of lines_body that starts with HORA once stripped, '' when
\* there is none
RECURSIVE FirstHoraLine(_)
FirstHoraLine(lines_body) ==
    IF lines_body = <<>> THEN <<>>
    ELSE IF StartsWith(Strip(lines_body[1]), <<"H", "O", "R", "A">>) THEN lines_body[1]
    ELSE FirstHoraLine(Tail(lines_body))

\* _process_header_line of the three classes: the column names
_process_header_line(cls, lines_body, body_dict) ==
    IF lines_body = <<>> THEN [exc |-> "none", val |-> body_dict]
    ELSE CASE cls = "Afr13" ->
                [exc |-> "none",
                 val |-> [k \in DOMAIN body_dict \cup {"header_columns"} |->
                            IF k = "header_columns" THEN Split(Strip(lines_body[1]))
                            ELSE body_dict[k]]]
           [] cls = "SerconJpLac210" ->
                [exc |-> "none",
                 val |-> [k \in DOMAIN body_dict \cup {"header_columns"} |->
                            IF k = "header_columns" THEN Split(Strip(FirstHoraLine(lines_body)))
                            ELSE body_dict[k]]]
           [] cls = "SerconTds" ->
                IF Len(lines_body) < 5 THEN [exc |-> "IndexError"]
                ELSE [exc |-> "none",
                      val |-> [k \in DOMAIN body_dict \cup {"header_columns"} |->
                                 IF k = "header_columns" THEN Split(Strip(lines_body[5]))
                                 ELSE body_dict[k]]]

\* the loop of read_body over lines_body[1:], from the 1-based position i:
\* body_dict is the dict being filled; assigned says whether self.body has
\* been bound to it (line 228: only after a line that is no phase line)
RECURSIVE read_body_loop(_, _, _, _, _)
read_body_loop(cls, lines_body, i, body_dict, assigned) ==
    IF i > Len(lines_body) THEN [body_dict |-> body_dict, assigned |-> assigned]
    ELSE LET line == Strip(lines_body[i])
             ph   == _process_phase_line(cls, line, body_dict)
         IN  IF ph.is_phase
             THEN read_body_loop(cls, lines_body, i + 1, ph.body_dict, assigned)
             ELSE read_body_loop(cls, lines_body, i + 1,
                                 _process_body_line(cls, line, ph.body_dict), TRUE)

\* read_body on the body lines lines_body of a reader whose self.body is
\* self_body: the value returned, which is self.body after the call
read_body(cls, lines_body, self_body) ==
    LET hd == _process_header_line(cls, lines_body, [data |-> <<>>, fase |-> <<>>])
    IN  IF hd.exc # "none" THEN [exc |-> hd.exc]
        ELSE LET r == read_body_loop(cls, lines_body, 2, hd.val, FALSE)
             IN  [exc |-> "none", val |-> IF r.assigned THEN r.body_dict ELSE self_body]

\* the attributes of a reader of class cls right after __init__
NewReader(cls, file_name) ==
    [cls |-> cls,
     file_name |-> file_name,
     size_header |-> CASE cls = "Afr13" -> 24
                       [] cls = "SerconJpLac210" -> 25
                       [] cls = "SerconTds" -> 64,
     lines_file |-> <<>>,
     body |-> <<>>,
     state_finalized_keys |->
        << <<"C", "I", "C", "L", "O", " ", "F", "I", "N", "A", "L", "I", "Z", "A", "D", "O">>,
           <<"C", "I", "C", "L", "O", " ", "C", "O", "N", "C", "L", "U", "I", "D", "O">>,
           <<"A", "E", "R", "A", "C", "A", "O">> >>,
     state_aborted_keys |->
        << <<"C", "I", "C", "L", "O", " ", "A", "B", "O", "R", "T", "A", "D", "O">> >>]

\* any(key in label for key in keys)
AnyKeyIn(keys, label) == \E i \in 1..Len(keys) : Contains(label, keys[i])

\* get_state with a loop that keeps scanning after a match: the last phase
\* that carries a keyword decides
RECURSIVE get_state_loop_last(_, _)
get_state_loop_last(self, i) ==
    IF i > Len(self.body["fase"]) THEN "incompleto"
    ELSE LET later == get_state_loop_last(self, i + 1)
         IN  IF later # "incompleto" THEN later
             ELSE IF AnyKeyIn(self.state_finalized_keys, self.body["fase"][i][2]) THEN "concluido"
             ELSE IF AnyKeyIn(self.state_aborted_keys, self.body["fase"][i][2]) THEN "abortado"
             ELSE "incompleto"

\* the for loop of get_state over self.body['fase'], from the 1-based position i
RECURSIVE get_state_loop(_, _)
get_state_loop(self, i) ==
    IF i > Len(self.body["fase"]) THEN "incompleto"
    ELSE IF AnyKeyIn(self.state_finalized_keys, self.body["fase"][i][2]) THEN "concluido"
    ELSE IF AnyKeyIn(self.state_aborted_keys, self.body["fase"][i][2]) THEN "abortado"
    ELSE get_state_loop(self, i + 1)

\* ReaderFitaDigitalSerconJpLac210.get_state / ReaderFitaDigitalSerconTds.get_state:
\* the reader afterwards and the value returned; the KeyError raised for a
\* body without 'fase' is caught and gives 'erro' before the keys are set
get_state(self) ==
    IF "fase" \notin DOMAIN self.body THEN [self |-> self, val |-> "erro"]
    ELSE LET keyed ==
                 [self EXCEPT
                    !.state_finalized_keys =
                        IF self.cls = "SerconTds"
                        THEN << <<"F", "I", "N", "A", "L", " ", " ", "D", "E", " ", "C", "I", "C", "L", "O">> >>
                        ELSE << <<"F", "I", "M", " ", "D", "E", " ", "C", "I", "C", "L", "O">> >>,
                    !.state_aborted_keys =
                        << <<"C", "I", "C", "L", "O", " ", "A", "B", "O", "R", "T", "A", "D", "O">> >>]
         IN  [self |-> keyed, val |-> get_state_loop(keyed, 1)]

(***************************************************************************)
(* The tape files and read_header                                          *)
(***************************************************************************)
\* the statement "x = e; ..." : e is evaluated once and named in what follows,
\* written The({ ... x ... : x \in {e} })
The(S) == CHOOSE x \in S : TRUE

\* d[k] = v on a dict
Put(d, k, v) == [x \in DOMAIN d \cup {k} |-> IF x = k THEN v ELSE d[x]]

\* lines followed by blank lines up to n lines in all
PadLines(lines, n) == lines \o [i \in 1..(n - Len(lines)) |-> <<"\n">>]

\* the tape files on disk, none of them modified while it is read: the lines
\* readlines() gives and the two timestamps of the file as
\* strftime('%d-%m-%Y %H:%M:%S') prints them.  The LAC210 tapes have 25
\* header lines and the TDS tapes 64; lac_nodate and tds_nodate lack the line
\* that carries the start date, tds_cut ends two lines after its header; on
\* lac_late the measurements pass midnight before the first phase line.
Files ==
    [lac_ok |->
        [lines |-> PadLines(<< <<"S", "E", "R", "C", "O", "N", " ", "J", "P", " ", "L", "A", "C", " ", "2", "1", "0", "\n">>, <<"L", "O", "T", "E", ":", " ", "0", "1", "2", "3", "\n">>, <<"C", "I", "C", "L", "O", ".", ":", " ", "0", "5", "\n">>,
                               <<"S", "E", "T", "P", "O", "I", "N", "T", ":", " ", "1", "2", "1", ",", "0", " ", "C", "\n">>, <<"2", "3", ":", "5", "8", "3", "1", "/", "1", "2", "/", "2", "0", "2", "3", " ", "I", "N", "I", "C", "I", "A", "N", "D", "O", "\n">> >>, 25)
                   \o << <<"H", "O", "R", "A", " ", "T", "E", "M", "P", " ", "P", "R", "E", "S", "S", " ", "C", "O", "N", "D", "\n">>, <<"2", "3", ":", "5", "8", " ", "1", "2", "1", ".", "5", " ", "1", ".", "2", "0", " ", "1", "0", "0", "0", ".", "0", "\n">>,
                         <<"2", "3", ":", "5", "9", " ", "E", "S", "T", "E", "R", "I", "L", "I", "Z", "A", "C", "A", "O", "\n">>, <<"0", "0", ":", "0", "1", " ", "1", "2", "1", ".", "0", " ", "1", ".", "1", "0", " ", "9", "0", "0", ".", "0", "\n">>,
                         <<"0", "0", ":", "0", "2", " ", "F", "I", "M", " ", "D", "E", " ", "C", "I", "C", "L", "O", "\n">> >>,
         create_date |-> <<"0", "2", "-", "0", "1", "-", "2", "0", "2", "4", " ", "0", "9", ":", "0", "0", ":", "0", "0">>,
         change_date |-> <<"0", "2", "-", "0", "1", "-", "2", "0", "2", "4", " ", "0", "9", ":", "0", "0", ":", "0", "0">>],
     lac_late |->
        [lines |-> PadLines(<< <<"S", "E", "R", "C", "O", "N", " ", "J", "P", " ", "L", "A", "C", " ", "2", "1", "0", "\n">>, <<"L", "O", "T", "E", ":", " ", "0", "1", "2", "5", "\n">>, <<"C", "I", "C", "L", "O", ".", ":", " ", "0", "5", "\n">>,
                               <<"S", "E", "T", "P", "O", "I", "N", "T", ":", " ", "1", "2", "1", ",", "0", " ", "C", "\n">>, <<"2", "3", ":", "5", "8", "3", "1", "/", "1", "2", "/", "2", "0", "2", "3", " ", "I", "N", "I", "C", "I", "A", "N", "D", "O", "\n">> >>, 25)
                   \o << <<"H", "O", "R", "A", " ", "T", "E", "M", "P", " ", "P", "R", "E", "S", "S", " ", "C", "O", "N", "D", "\n">>, <<"2", "3", ":", "5", "8", " ", "1", "2", "1", ".", "5", " ", "1", ".", "2", "0", " ", "1", "0", "0", "0", ".", "0", "\n">>,
                         <<"0", "0", ":", "0", "1", " ", "1", "2", "1", ".", "0", " ", "1", ".", "1", "0", " ", "9", "0", "0", ".", "0", "\n">>, <<"0", "0", ":", "0", "2", " ", "E", "S", "T", "E", "R", "I", "L", "I", "Z", "A", "C", "A", "O", "\n">>,
                         <<"0", "0", ":", "0", "5", " ", "F", "I", "M", " ", "D", "E", " ", "C", "I", "C", "L", "O", "\n">> >>,
         create_date |-> <<"0", "2", "-", "0", "1", "-", "2", "0", "2", "4", " ", "0", "9", ":", "0", "0", ":", "0", "0">>,
         change_date |-> <<"0", "2", "-", "0", "1", "-", "2", "0", "2", "4", " ", "0", "9", ":", "0", "0", ":", "0", "0">>],
     lac_nodate |->
        [lines |-> PadLines(<< <<"S", "E", "R", "C", "O", "N", " ", "J", "P", " ", "L", "A", "C", " ", "2", "1", "0", "\n">>, <<"L", "O", "T", "E", ":", " ", "0", "1", "2", "4", "\n">>, <<"C", "I", "C", "L", "O", ".", ":", " ", "0", "5", "\n">>,
                               <<"S", "E", "T", "P", "O", "I", "N", "T", ":", " ", "1", "2", "1", ",", "0", " ", "C", "\n">> >>, 25)
                   \o << <<"H", "O", "R", "A", " ", "T", "E", "M", "P", " ", "P", "R", "E", "S", "S", " ", "C", "O", "N", "D", "\n">>, <<"1", "0", ":", "1", "6", " ", "1", "2", "1", ".", "5", " ", "1", ".", "2", "0", " ", "1", "0", "0", "0", ".", "0", "\n">>,
                         <<"1", "0", ":", "1", "7", " ", "F", "I", "M", " ", "D", "E", " ", "C", "I", "C", "L", "O", "\n">> >>,
         create_date |-> <<"0", "5", "-", "0", "2", "-", "2", "0", "2", "4", " ", "1", "1", ":", "0", "0", ":", "0", "0">>,
         change_date |-> <<"0", "5", "-", "0", "2", "-", "2", "0", "2", "4", " ", "1", "1", ":", "0", "0", ":", "0", "0">>],
     tds_ok |->
        [lines |-> PadLines(<< <<"S", "E", "R", "C", "O", "N", " ", "T", "D", "S", "\n">>, <<"N", "U", "M", "E", "R", "O", " ", "L", "O", "T", "E", ":", " ", "7", "7", "\n">>, <<"C", "I", "C", "L", "O", ":", " ", "3", "\n">>,
                               <<"T", "E", "M", "P", "E", "R", "A", "T", "U", "R", "A", " ", "D", "A", " ", "A", "G", "U", "A", ":", " ", "6", "0", " ", "C", "\n">>,
                               <<"0", "8", ":", "3", "0", " ", "-", " ", "1", "5", "/", "0", "3", "/", "2", "4", " ", "-", " ", "I", "N", "I", "C", "I", "O", " ", "D", "E", " ", "C", "I", "C", "L", "O", "\n">> >>, 64)
                   \o << <<"\n">>, <<"R", "E", "G", "I", "S", "T", "R", "O", " ", "D", "E", " ", "C", "I", "C", "L", "O", "\n">>, <<"-", "-", "-", "-", "-", "-", "-", "-", "-", "-", "\n">>, <<"\n">>,
                         <<"H", "O", "R", "A", " ", "T", "E", "M", "P", "1", " ", "T", "E", "M", "P", "2", " ", "P", "R", "E", "S", "S", "\n">>, <<"0", "8", ":", "3", "1", " ", "6", "0", ".", "1", " ", "5", "9", ".", "8", " ", "1", ".", "0", "1", "3", "\n">>,
                         <<"0", "8", ":", "3", "2", " ", "-", " ", "E", "N", "X", "A", "G", "U", "E", "\n">>, <<"0", "8", ":", "4", "0", " ", "-", " ", "C", "I", "C", "L", "O", " ", "A", "B", "O", "R", "T", "A", "D", "O", "\n">> >>,
         create_date |-> <<"1", "5", "-", "0", "3", "-", "2", "0", "2", "4", " ", "0", "9", ":", "0", "0", ":", "0", "0">>,
         change_date |-> <<"1", "5", "-", "0", "3", "-", "2", "0", "2", "4", " ", "0", "9", ":", "0", "0", ":", "0", "0">>],
     tds_nodate |->
        [lines |-> PadLines(<< <<"S", "E", "R", "C", "O", "N", " ", "T", "D", "S", "\n">>, <<"N", "U", "M", "E", "R", "O", " ", "L", "O", "T", "E", ":", " ", "7", "8", "\n">>, <<"C", "I", "C", "L", "O", ":", " ", "3", "\n">>,
                               <<"T", "E", "M", "P", "E", "R", "A", "T", "U", "R", "A", " ", "D", "A", " ", "A", "G", "U", "A", ":", " ", "6", "0", " ", "C", "\n">> >>, 64)
                   \o << <<"\n">>, <<"R", "E", "G", "I", "S", "T", "R", "O", " ", "D", "E", " ", "C", "I", "C", "L", "O", "\n">>, <<"-", "-", "-", "-", "-", "-", "-", "-", "-", "-", "\n">>, <<"\n">>,
                         <<"H", "O", "R", "A", " ", "T", "E", "M", "P", "1", " ", "T", "E", "M", "P", "2", " ", "P", "R", "E", "S", "S", "\n">>, <<"0", "8", ":", "3", "1", " ", "6", "0", ".", "1", " ", "5", "9", ".", "8", " ", "1", ".", "0", "1", "3", "\n">> >>,
         create_date |-> <<"1", "6", "-", "0", "3", "-", "2", "0", "2", "4", " ", "0", "9", ":", "0", "0", ":", "0", "0">>,
         change_date |-> <<"1", "6", "-", "0", "3", "-", "2", "0", "2", "4", " ", "0", "9", ":", "0", "0", ":", "0", "0">>],
     tds_cut |->
        [lines |-> PadLines(<< <<"S", "E", "R", "C", "O", "N", " ", "T", "D", "S", "\n">>, <<"N", "U", "M", "E", "R", "O", " ", "L", "O", "T", "E", ":", " ", "7", "9", "\n">>, <<"C", "I", "C", "L", "O", ":", " ", "3", "\n">>,
                               <<"T", "E", "M", "P", "E", "R", "A", "T", "U", "R", "A", " ", "D", "A", " ", "A", "G", "U", "A", ":", " ", "6", "0", " ", "C", "\n">>,
                               <<"0", "8", ":", "3", "0", " ", "-", " ", "1", "7", "/", "0", "3", "/", "2", "4", " ", "-", " ", "I", "N", "I", "C", "I", "O", " ", "D", "E", " ", "C", "I", "C", "L", "O", "\n">> >>, 64)
                   \o << <<"\n">>, <<"R", "E", "G", "I", "S", "T", "R", "O", " ", "D", "E", " ", "C", "I", "C", "L", "O", "\n">> >>,
         create_date |-> <<"1", "7", "-", "0", "3", "-", "2", "0", "2", "4", " ", "0", "9", ":", "0", "0", ":", "0", "0">>,
         change_date |-> <<"1", "7", "-", "0", "3", "-", "2", "0", "2", "4", " ", "0", "9", ":", "0", "0", ":", "0", "0">>]]

\* read_files_information: the name and the timestamps of the reader's file
read_files_information(self) ==
    [file_name |-> self.file_name,
     create_date |-> Files[self.file_name].create_date,
     change_date |-> Files[self.file_name].change_date]

\* read_file: self.lines_file = file.readlines()
read_file(self) == [self EXCEPT !.lines_file = Files[self.file_name].lines]

\* read_header_file_content that reads the file again on every call
read_header_file_content_reread(self) ==
    [self |-> read_file(self),
     val |-> Upto(read_file(self).lines_file, self.size_header),
     calls |-> <<"read_file">>]

\* read_header_file_content, and the same two statements at the head of the
\* LAC210 read_header: the header lines, read from the file only while
\* self.lines_file is empty
read_header_file_content(self) ==
    LET loaded == IF self.lines_file = <<>> THEN read_file(self) ELSE self
    IN  [self |-> loaded,
         val |-> Upto(loaded.lines_file, self.size_header),
         calls |-> IF self.lines_file = <<>> THEN <<"read_file">> ELSE <<>>]

\* read_body_file_content / read_body_lines_raw: the lines after the header
read_body_file_content(self) ==
    LET loaded == IF self.lines_file = <<>> THEN read_file(self) ELSE self
    IN  [self |-> loaded,
         val |-> From(loaded.lines_file, self.size_header),
         calls |-> IF self.lines_file = <<>> THEN <<"read_file">> ELSE <<>>]

\* line.split(':')[1].strip() stored under key; IndexError without a ':'
PutAfterColon(header, key, line) ==
    IF Len(SplitOn(line, ":")) < 2 THEN [exc |-> "IndexError"]
    ELSE [exc |-> "none", header |-> Put(header, key, Strip(SplitOn(line, ":")[2])), brk |-> FALSE]

\* the body of the for loop of the LAC210 read_header on one line: the
\* header afterwards and whether the loop breaks
Lac210HeaderLine(line, header) ==
    LET value == Split(line)
        stripped == Strip(line)
    IN  IF StartsWith(stripped, <<"L", "O", "T", "E">>) THEN PutAfterColon(header, "LOTE", line)
        ELSE IF StartsWith(stripped, <<"C", "I", "C", "L", "O", ".">>) THEN PutAfterColon(header, "CICLO", line)
        ELSE IF StartsWith(stripped, <<"S", "E", "T", "P", "O", "I", "N", "T">>)
        THEN IF Len(SplitOn(line, ":")) < 2 THEN [exc |-> "IndexError"]
             ELSE LET setpoint == Strip(SplitOn(line, ":")[2])
                      number == float([k \in 1..Len(Strip(SplitOn(setpoint, " ")[1])) |->
                                          IF Strip(SplitOn(setpoint, " ")[1])[k] = ","
                                          THEN "." ELSE Strip(SplitOn(setpoint, " ")[1])[k]])
                  IN  IF setpoint = <<>> THEN [exc |-> "none", header |-> header, brk |-> FALSE]
                      ELSE IF number.exc # "none" THEN [exc |-> number.exc]
                      ELSE [exc |-> "none", header |-> Put(header, "SETPOINT", number.val),
                            brk |-> FALSE]
        ELSE IF Len(value) = 2 /\ StartsWith(value[2], <<"I", "N", "I", "C", "I", "A", "N", "D", "O">>)
        THEN IF Len(SplitOn(value[1], ":")) < 2 THEN [exc |-> "IndexError"]
             ELSE LET date == SplitOn(SplitOn(value[1], ":")[2], "/")
                      hora == SplitOn(Upto(value[1], 5), ":")
                  IN  IF Len(date) < 3 \/ Len(hora) < 2 THEN [exc |-> "IndexError"]
                      ELSE [exc |-> "none",
                            header |-> Put(Put(header, "Data:",
                                               From(date[1], 2) \o <<"-">> \o date[2] \o <<"-">> \o date[3]),
                                           "Hora:", hora[1] \o <<":">> \o hora[2] \o <<":", "0", "0">>),
                            brk |-> TRUE]
        ELSE [exc |-> "none", header |-> header, brk |-> FALSE]

\* the body of the for loop of the TDS read_header on one line
TdsHeaderLine(line, header) ==
    LET stripped == Strip(line)
        h1 == IF StartsWith(stripped, <<"N", "U", "M", "E", "R", "O", " ", "L", "O", "T", "E">>)
              THEN PutAfterColon(header, "NUMERO LOTE", line)
              ELSE [exc |-> "none", header |-> header, brk |-> FALSE]
        h2 == IF h1.exc # "none" THEN h1
              ELSE IF StartsWith(stripped, <<"C", "I", "C", "L", "O", ":">>)
              THEN PutAfterColon(h1.header, "CICLO", line)
              ELSE h1
        h3 == IF h2.exc # "none" THEN h2
              ELSE IF StartsWith(stripped, <<"T", "E", "M", "P", "E", "R", "A", "T", "U", "R", "A", " ", "D", "A", " ", "A", "G", "U", "A">>)
              THEN IF Len(SplitOn(line, ":")) < 2 \/ Split(SplitOn(line, ":")[2]) = <<>>
                   THEN [exc |-> "IndexError"]
                   ELSE [exc |-> "none",
                         header |-> Put(h2.header, "TEMPERATURA DA AGUA",
                                        Split(SplitOn(line, ":")[2])[1]),
                         brk |-> FALSE]
              ELSE h2
        value == SplitOn(line, "-")
    IN  IF h3.exc # "none" THEN h3
        ELSE IF Len(value) = 3 /\ Strip(value[3]) = <<"I", "N", "I", "C", "I", "O", " ", "D", "E", " ", "C", "I", "C", "L", "O">>
        THEN LET date == SplitOn(Strip(value[2]), "/")
             IN  IF Len(date) < 3 THEN [exc |-> "IndexError"]
                 ELSE [exc |-> "none",
                       header |-> Put(Put(h3.header, "Data:",
                                          date[1] \o <<"-">> \o date[2] \o <<"-", "2", "0">> \o date[3]),
                                      "Hora:", Strip(value[1]) \o <<":", "0", "0">>),
                       brk |-> TRUE]
        ELSE h3

\* the for loop over the header lines, from the 1-based position i
RECURSIVE read_header_loop(_, _, _, _)
read_header_loop(cls, file_content, i, header) ==
    IF i > Len(file_content) THEN [exc |-> "none", header |-> header]
    ELSE LET r == IF cls = "SerconTds" THEN TdsHeaderLine(file_content[i], header)
                  ELSE Lac210HeaderLine(file_content[i], header)
         IN  IF r.exc # "none" THEN [exc |-> r.exc]
             ELSE IF r.brk THEN [exc |-> "none", header |-> r.header]
             ELSE read_header_loop(cls, file_content, i + 1, r.header)

\* ReaderFitaDigitalSerconJpLac210.read_header / ReaderFitaDigitalSerconTds.read_header:
\* the reader afterwards, the exception or the header returned, the methods run
read_header(self) ==
    The({ The({
        LET out(exc, val) == [self |-> content.self, exc |-> exc, val |-> val,
                              calls |-> <<"read_header">> \o content.calls]
        IN  IF looped.exc # "none" THEN out(looped.exc, <<>>)
            ELSE IF "Data:" \notin DOMAIN looped.header \/ "Hora:" \notin DOMAIN looped.header
            THEN out(IF self.cls = "SerconTds" THEN "AttributeError" ELSE "KeyError", <<>>)
            ELSE The({ IF date.exc # "none" THEN out(date.exc, <<>>)
                       ELSE out("none", Put(looped.header, "Data:", date.val))
                     : date \in {strptime_dmY(looped.header["Data:"])} })
      : looped \in {read_header_loop(self.cls, content.val, 1, read_files_information(self))} })
    : content \in {read_header_file_content(self)} })

(***************************************************************************)
(* DataObjectFitaDigital: reading a tape through the registered reader     *)
(***************************************************************************)
\* the attributes of a DataObjectFitaDigital right after __init__; reader_fita
\* does not exist before register_reader_fita
NewDataObject ==
    [reader_fita |-> "none", header_fita |-> <<>>, body_fita |-> <<>>, size_header |-> 25]

\* read_header_fita: the data object and the reader afterwards, the exception
\* or the value returned, the methods run, and the outcome of read_header
read_header_fita(do_, self) ==
    The({ [do |-> IF r.exc = "none" THEN [do_ EXCEPT !.header_fita = r.val] ELSE do_,
           self |-> r.self,
           exc |-> r.exc,
           val |-> r.val,
           calls |-> <<"read_header_fita">> \o r.calls,
           hdr |-> [size_header |-> self.size_header, exc |-> r.exc, val |-> r.val]]
        : r \in {read_header(self)} })

\* read_body_fita that never reads the header on its own
LazyHeader_never(do_, self) ==
    [do |-> do_, self |-> self, exc |-> "none", val |-> <<>>, calls |-> <<>>, hdr |-> <<>>]

\* the first statement of read_body_fita: read the header unless
\* self.header_fita holds one
LazyHeader(do_, self) ==
    IF do_.header_fita = <<>> THEN read_header_fita(do_, self)
    ELSE [do |-> do_, self |-> self, exc |-> "none", val |-> <<>>, calls |-> <<>>, hdr |-> <<>>]

\* the times of rows put on start_date, every one of them, with no rollover
ConvertTimes_samedate(rows, start_date) ==
    IF \E i \in 1..Len(rows) : strptime_cell(rows[i][1]).exc # "none"
    THEN [exc |-> "ValueError"]
    ELSE [exc |-> "none",
          val |-> [i \in 1..Len(rows) |->
                     [rows[i] EXCEPT ![1] =
                        [strptime_cell(rows[i][1]).val EXCEPT !.year = start_date.year,
                                                               !.month = start_date.month,
                                                               !.day = start_date.day]]]]

\* the times of rows replaced by time_to_datetime of them: rows is
\* body_fita['data'] or body_fita['fase']
ConvertTimes(rows, start_date) ==
    The({ IF times.exc # "none" THEN [exc |-> times.exc]
          ELSE [exc |-> "none",
                val |-> [i \in 1..Len(rows) |-> [rows[i] EXCEPT ![1] = times.val[i]]]]
        : times \in {time_to_datetime([i \in 1..Len(rows) |-> rows[i][1]], start_date)} })

\* read_body_fita.  body_fita is the very dict the reader holds as self.body,
\* so what is written into it is written into the reader's body as well.  A
\* ValueError ends the call with body_fita returned as it is by then, any
\* other exception is raised again as Exception.
read_body_fita(do_, self) ==
    The({
        LET out(exc, do2, self2, cs) ==
                [do |-> do2, self |-> self2,
                 exc |-> IF exc \in {"none", "ValueError"} THEN "none" ELSE "Exception",
                 val |-> IF exc \in {"none", "ValueError"} THEN do2.body_fita ELSE <<>>,
                 calls |-> <<"read_body_fita">> \o lazy.calls \o cs, hdr |-> lazy.hdr]
            with(b) == [lazy.do EXCEPT !.body_fita = b]
        IN  IF lazy.exc # "none" THEN out(lazy.exc, lazy.do, lazy.self, <<>>)
            ELSE The({ The({
                LET calls2  == <<"read_body">> \o content.calls
                    body    == parsed.val
                    held(b) == [content.self EXCEPT !.body = b]
                IN  IF parsed.exc # "none" THEN out(parsed.exc, lazy.do, content.self, calls2)
                    ELSE IF body = <<>> \/ "data" \notin DOMAIN body
                    THEN out("ValueError", with(body), held(body), calls2)
                    ELSE IF "Data:" \notin DOMAIN lazy.do.header_fita
                    THEN out("KeyError", with(body), held(body), calls2)
                    ELSE The({
                        LET body4 == [body EXCEPT !["data"] = data.val]
                        IN  IF data.exc # "none"
                            THEN out(data.exc, with(body), held(body),
                                     calls2 \o <<"time_to_datetime">>)
                            ELSE IF "fase" \notin DOMAIN body
                            THEN The({ out("none", with(Put(body4, "state", state.val)),
                                           [state.self EXCEPT !.body = Put(body4, "state", state.val)],
                                           calls2 \o <<"time_to_datetime", "get_state">>)
                                     : state \in {get_state(held(body4))} })
                            ELSE The({
                                LET body5 == [body4 EXCEPT !["fase"] = fase.val]
                                IN  IF fase.exc # "none"
                                    THEN out(fase.exc, with(body4), held(body4),
                                             calls2 \o <<"time_to_datetime", "time_to_datetime">>)
                                    ELSE The({ out("none", with(Put(body5, "state", state.val)),
                                                   [state.self EXCEPT !.body = Put(body5, "state", state.val)],
                                                   calls2 \o <<"time_to_datetime", "time_to_datetime",
                                                               "get_state">>)
                                             : state \in {get_state(held(body5))} })
                              : fase \in {ConvertTimes(body["fase"], lazy.do.header_fita["Data:"])} })
                      : data \in {ConvertTimes(body["data"], lazy.do.header_fita["Data:"])} })
              : parsed \in {read_body(self.cls, content.val, content.self.body)} })
              : content \in {read_body_file_content(lazy.self)} })
      : lazy \in {LazyHeader(do_, self)} })

\* read_all_fita: read_header_fita, then read_body_fita
read_all_fita(do_, self) ==
    The({ IF header.exc # "none"
          THEN [header EXCEPT !.calls = <<"read_all_fita">> \o @, !.val = <<>>]
          ELSE The({ [do |-> body.do, self |-> body.self, exc |-> body.exc,
                      val |-> IF body.exc = "none"
                              THEN <<body.do.header_fita, body.do.body_fita>> ELSE <<>>,
                      calls |-> <<"read_all_fita">> \o header.calls \o body.calls,
                      hdr |-> header.hdr]
                   : body \in {read_body_fita(header.do, header.self)} })
        : header \in {read_header_fita(do_, self)} })

(***************************************************************************)
(* Bounded inputs                                                          *)
(***************************************************************************)
\* all sequences over S of length 0..n
SeqsUpTo(S, n) == UNION {[1..k -> S] : k \in 0..n}

\* the longest list of time strings handed to time_to_datetime
MaxTimes == 4

\* time-of-day strings as the readers store them; the last one is no valid time
TimeStrings ==
    { <<"2", "3", ":", "5", "8", ":", "0", "0">>,
      <<"2", "3", ":", "5", "9", ":", "3", "0">>,
      <<"0", "0", ":", "0", "0", ":", "1", "0">>,
      <<"0", "0", ":", "0", "1", ":", "0", "0">>,
      <<"1", "2", ":", "0", "0", ":", "0", "0">>,
      <<"2", "5", ":", "0", "0", ":", "0", "0">> }

\* header dates: an ordinary day, the eve of a leap day, the last day of a year
BaseDates ==
    { datetime(2024, 1, 1, 0, 0, 0),
      datetime(2024, 2, 28, 0, 0, 0),
      datetime(2023, 12, 31, 0, 0, 0) }

(***************************************************************************)
(* Specification SpecTime: time_to_datetime applied to bounded inputs      *)
(***************************************************************************)
InitTime ==
    /\ op = "init"
    /\ args \in [times : SeqsUpTo({[str |-> t] : t \in TimeStrings}, MaxTimes),
                  start_date : BaseDates]
    /\ raised = "none"
    /\ returned = <<>>
    /\ calls = <<>>
    /\ readers = <<>>
    /\ do = <<>>
    /\ hist = <<>>

CallTimeToDatetime ==
    /\ op = "init"
    /\ LET r == time_to_datetime(args.times, args.start_date)
       IN  /\ raised' = r.exc
           /\ returned' = IF r.exc = "none" THEN r.val ELSE <<>>
    /\ op' = "time_to_datetime"
    /\ calls' = IF FirstFailure(args.times) = 0
                THEN <<"time_to_datetime", "replace_date_in_times">>
                ELSE <<"time_to_datetime">>
    /\ UNCHANGED <<args, readers, do, hist>>

NextTime == CallTimeToDatetime

SpecTime == InitTime /\ [][NextTime]_vars

(***************************************************************************)
(* Specification SpecState: get_state on readers holding bounded bodies    *)
(***************************************************************************)
\* the longest phase list handed to get_state
MaxPhases == 3

\* phase labels: the keywords of both classes, labels that carry two keywords,
\* a keyword of the base class only, and a label without keyword
PhaseLabels ==
    { <<"F", "I", "M", " ", "D", "E", " ", "C", "I", "C", "L", "O">>,
      <<"F", "I", "N", "A", "L", " ", " ", "D", "E", " ", "C", "I", "C", "L", "O">>,
      <<"C", "I", "C", "L", "O", " ", "A", "B", "O", "R", "T", "A", "D", "O">>,
      <<"F", "I", "M", " ", "D", "E", " ", "C", "I", "C", "L", "O", " ", "A", "B", "O", "R", "T", "A", "D", "O">>,
      <<"F", "I", "N", "A", "L", " ", " ", "D", "E", " ", "C", "I", "C", "L", "O", " ", "A", "B", "O", "R", "T", "A", "D", "O">>,
      <<"C", "I", "C", "L", "O", " ", "F", "I", "N", "A", "L", "I", "Z", "A", "D", "O">>,
      <<"E", "N", "X", "A", "G", "U", "E">> }

\* the bodies a reader can hold: {} before read_body, a parsed body after it
StateBodies ==
    {<<>>} \cup
    { [header_columns |-> << <<"H", "O", "R", "A">> >>, data |-> <<>>, fase |-> f] :
        f \in SeqsUpTo({ << [str |-> <<"1", "0", ":", "0", "0", ":", "0", "0">>], l >> : l \in PhaseLabels }, MaxPhases) }

InitState ==
    /\ op = "init"
    /\ args = <<>>
    /\ raised = "none"
    /\ returned = <<>>
    /\ calls = <<>>
    /\ readers \in { [r \in {"r1"} |-> [NewReader(cls, "f1") EXCEPT !.body = b]] :
                        cls \in {"SerconJpLac210", "SerconTds"}, b \in StateBodies }
    /\ do = <<>>
    /\ hist = <<>>

CallGetState ==
    /\ op = "init"
    /\ LET r == get_state(readers["r1"])
       IN  /\ readers' = [readers EXCEPT !["r1"] = r.self]
           /\ returned' = r.val
    /\ raised' = "none"
    /\ op' = "get_state"
    /\ args' = [reader |-> "r1"]
    /\ calls' = <<"get_state">>
    /\ UNCHANGED <<do, hist>>

NextState == CallGetState

SpecState == InitState /\ [][NextState]_vars

(***************************************************************************)
(* Specification SpecBody: read_body of each class on bounded body lines   *)
(***************************************************************************)
\* the most lines a tape has after its column-header line
MaxBodyLines == 2

\* body lines as the tapes hold them, each ended by its newline; "NUL" stands
\* for the one character chr(0)
BodyLineCatalog ==
    { <<"1", "0", ":", "1", "5", " ", " ", "3", ".", "2", "\n">>,
      <<"1", "0", ":", "1", "5", " ", "1", "2", "3", ",", "4", " ", "1", ",", "2", "3", " ", "1", "2", "3", "4", ",", "5", "\n">>,
      <<"1", "0", ":", "1", "6", " ", "1", "2", "1", ".", "5", " ", "1", ".", "2", "0", " ", "1", "0", "0", "0", ".", "0", "\n">>,
      <<"1", "0", ":", "1", "7", " ", "F", "I", "M", " ", "D", "E", " ", "C", "I", "C", "L", "O", "\n">>,
      <<"1", "0", ":", "1", "8", " ", "-", " ", "C", "I", "C", "L", "O", " ", "A", "B", "O", "R", "T", "A", "D", "O", "\n">>,
      <<"X", "X", " ", "1", ".", "0", " ", "2", ".", "0", " ", "3", ".", "0", "\n">>,
      <<"*", "*", "*", " ", "S", "E", "R", "C", "O", "N", " ", "*", "*", "*", "\n">>,
      <<"1", "4", ":", "2", "8", ":", "3", "4", " ", " ", "0", ".", "0", "0", "0", " ", " ", "4", "9", ".", "8", "0", " ", " ", "5", "0", " ", " ", "0", ".", "0", "\n">>,
      <<"1", "4", ":", "2", "8", ":", "3", "6", " ", " ", "L", "E", "A", "K", "-", "T", "E", "S", "T", "\n">>,
      <<"1", "4", ":", "2", "9", ":", "0", "7", " ", "5", "0", "\n">>,
      <<"1", "0", ":", "1", "9", " ", "-", " ", "5", "0", " ", "-", "1", "\n">>,
      <<"1", "0", ":", "1", "7", " ", "F", "I", "M">> \o <<"NUL">> \o <<" ", "D", "E", " ", "C", "I", "C", "L", "O", "\n">> }

\* the lines of a body up to and including its column-header line: the first
\* body line for AFR13 and LAC210, the fifth for TDS
Preamble(cls) ==
    CASE cls = "Afr13" -> << <<"H", "O", "R", "A", " ", "P", "C", "I", " ", "T", "C", "I", " ", "U", "R", " ", "E", "T", "O", "\n">> >>
      [] cls = "SerconJpLac210" -> << <<"H", "O", "R", "A", " ", "T", "E", "M", "P", " ", "P", "R", "E", "S", "S", " ", "C", "O", "N", "D", "\n">> >>
      [] cls = "SerconTds" ->
            << <<"\n">>, <<"R", "E", "G", "I", "S", "T", "R", "O", " ", "D", "E", " ", "C", "I", "C", "L", "O", "\n">>, <<"-", "-", "-", "-", "-", "-", "-", "-", "-", "-", "\n">>, <<"\n">>,
               <<"H", "O", "R", "A", " ", "T", "E", "M", "P", " ", "P", "R", "E", "S", "S", " ", "C", "O", "N", "D", "\n">> >>

\* complete bodies, and bodies cut inside the preamble
BodyTapes(cls) ==
    { Preamble(cls) \o l : l \in SeqsUpTo(BodyLineCatalog, MaxBodyLines) }
    \cup { SubSeq(Preamble(cls), 1, k) : k \in 0..Len(Preamble(cls)) }

InitBody ==
    /\ op = "init"
    /\ args \in UNION { { [cls |-> cls, lines_body |-> l] : l \in BodyTapes(cls) } :
                          cls \in Profiles }
    /\ raised = "none"
    /\ returned = <<>>
    /\ calls = <<>>
    /\ readers = <<>>
    /\ do = <<>>
    /\ hist = <<>>

CallReadBody ==
    /\ op = "init"
    /\ LET r == read_body(args.cls, args.lines_body, <<>>)
       IN  /\ raised' = r.exc
           /\ returned' = IF r.exc = "none" THEN r.val ELSE <<>>
    /\ op' = "read_body"
    /\ calls' = <<"read_body">>
    /\ UNCHANGED <<args, readers, do, hist>>

NextBody == CallReadBody

SpecBody == InitBody /\ [][NextBody]_vars

(***************************************************************************)
(* Specification Spec: a data object and two readers, called in any order  *)
(***************************************************************************)
Readers == {"r1", "r2"}

\* the files the two readers are constructed on: a LAC210 tape for r1 and a
\* TDS tape for r2, one of the two complete and the other one defective
FilePairs ==
    {<<"lac_nodate", "tds_ok">>, <<"lac_ok", "tds_nodate">>, <<"lac_ok", "tds_cut">>}

\* the sizes passed to register_reader_fita (0 stands for None: both are
\* false in "size_header or self.size_header", which then gives the data
\* object's 25) and those passed to set_size_header
RegisterSizes == {0, 64}

SetSizes == {25, 64}

Init ==
    /\ op = "init"
    /\ args = <<>>
    /\ raised = "none"
    /\ returned = <<>>
    /\ calls = <<>>
    /\ readers \in { [r \in Readers |->
                         IF r = "r1" THEN NewReader("SerconJpLac210", f[1])
                         ELSE NewReader("SerconTds", f[2])] : f \in FilePairs }
    /\ do = NewDataObject
    /\ hist = [r \in Readers |-> <<>>]

\* what a call on the data object leaves behind: r is the outcome record of
\* read_header_fita, read_body_fita or read_all_fita on the registered reader
Finish(name, r) ==
    /\ op' = name
    /\ args' = [reader |-> do.reader_fita]
    /\ raised' = r.exc
    /\ returned' = IF r.exc = "none" THEN r.val ELSE <<>>
    /\ calls' = r.calls
    /\ readers' = [readers EXCEPT ![do.reader_fita] = r.self]
    /\ do' = r.do
    /\ hist' = IF r.hdr = <<>> THEN hist ELSE [hist EXCEPT ![do.reader_fita] = r.hdr]

\* a call on a data object that has no reader_fita attribute yet
NoReader(name, exc) ==
    /\ do.reader_fita = "none"
    /\ op' = name
    /\ args' = <<>>
    /\ raised' = exc
    /\ returned' = <<>>
    /\ calls' = <<name>>
    /\ UNCHANGED <<readers, do, hist>>

RegisterReaderFita(r, size_header) ==
    /\ op' = "register_reader_fita"
    /\ args' = [reader |-> r, size_header |-> size_header]
    /\ raised' = "none"
    /\ returned' = <<>>
    /\ calls' = <<"register_reader_fita">>
    /\ do' = [do EXCEPT !.reader_fita = r]
    /\ readers' = [readers EXCEPT ![r].size_header =
                       IF size_header = 0 THEN do.size_header ELSE size_header]
    /\ UNCHANGED hist

SetSizeHeader(size_header) ==
    \/ NoReader("set_size_header", "ValueError")
    \/ /\ do.reader_fita # "none"
       /\ op' = "set_size_header"
       /\ args' = [reader |-> do.reader_fita, size_header |-> size_header]
       /\ raised' = "none"
       /\ returned' = <<>>
       /\ calls' = <<"set_size_header">>
       /\ readers' = [readers EXCEPT ![do.reader_fita].size_header = size_header]
       /\ UNCHANGED <<do, hist>>

ReadHeaderFita ==
    \/ NoReader("read_header_fita", "AttributeError")
    \/ /\ do.reader_fita # "none"
       /\ \E r \in {read_header_fita(do, readers[do.reader_fita])} :
             Finish("read_header_fita", r)

ReadBodyFita ==
    \/ NoReader("read_body_fita", "Exception")
    \/ /\ do.reader_fita # "none"
       /\ \E r \in {read_body_fita(do, readers[do.reader_fita])} :
             Finish("read_body_fita", r)

ReadAllFita ==
    \/ NoReader("read_all_fita", "AttributeError")
    \/ /\ do.reader_fita # "none"
       /\ \E r \in {read_all_fita(do, readers[do.reader_fita])} :
             Finish("read_all_fita", r)

\* do.reader_fita.read_header() called on the reader itself
ReaderReadHeader ==
    /\ do.reader_fita # "none"
    /\ \E r \in {read_header(readers[do.reader_fita])} :
           /\ op' = "read_header"
           /\ args' = [reader |-> do.reader_fita]
           /\ raised' = r.exc
           /\ returned' = r.val
           /\ calls' = r.calls
           /\ readers' = [readers EXCEPT ![do.reader_fita] = r.self]
           /\ hist' = [hist EXCEPT ![do.reader_fita] =
                          [size_header |-> readers[do.reader_fita].size_header,
                           exc |-> r.exc, val |-> r.val]]
           /\ UNCHANGED do

Next ==
    \/ \E r \in Readers, size_header \in RegisterSizes : RegisterReaderFita(r, size_header)
    \/ \E size_header \in SetSizes : SetSizeHeader(size_header)
    \/ ReadHeaderFita
    \/ ReadBodyFita
    \/ ReadAllFita
    \/ ReaderReadHeader

Spec == Init /\ [][Next]_vars

(***************************************************************************)
(* Properties                                                              *)
(***************************************************************************)
\* seconds since midnight of a well-formed "HH:MM:SS" string
TimeOfDay(t) ==
    3600 * ToInt(SubSeq(t, 1, 2)) + 60 * ToInt(SubSeq(t, 4, 5)) + ToInt(SubSeq(t, 7, 8))

SecondsOf(dt) == 3600 * dt.hour + 60 * dt.minute + dt.second

\* days before 1 January of year y, and before the first of month m (date.toordinal)
DaysBeforeYear(y) == 365 * (y - 1) + ((y - 1) \div 4) - ((y - 1) \div 100) + ((y - 1) \div 400)

RECURSIVE DaysBeforeMonth(_, _)
DaysBeforeMonth(y, m) ==
    IF m = 1 THEN 0 ELSE DaysBeforeMonth(y, m - 1) + DaysInMonth(y, m - 1)

Ordinal(dt) == DaysBeforeYear(dt.year) + DaysBeforeMonth(dt.year, dt.month) + dt.day

TimeReturned == op = "time_to_datetime" /\ raised = "none"

\* the positions 2..i at which the time of day steps back
Rollovers(times, i) == {j \in 2..i : TimeOfDay(times[j].str) < TimeOfDay(times[j - 1].str)}

\* C1: the list returned by time_to_datetime / replace_date_in_times is
\* non-decreasing: no entry is earlier than the entry before it, however
\* often the time of day wraps past midnight.
C1_NonDecreasing ==
    TimeReturned => \A i \in 2..Len(returned) : ~DtLess(returned[i], returned[i - 1])

\* a call whose input wraps past midnight twice has returned
C1_Witness ==
    /\ TimeReturned
    /\ Len(args.times) = MaxTimes
    /\ Cardinality(Rollovers(args.times, Len(args.times))) >= 2

\* C2: the result has the length and order of the input; entry i keeps its
\* own time of day and lies k days after the base date, k being the number of
\* positions j in 2..i whose time of day is strictly earlier than the one at
\* j-1 (equal consecutive times add no day).
C2_DayCount ==
    TimeReturned =>
        /\ Len(returned) = Len(args.times)
        /\ \A i \in 1..Len(returned) :
              /\ SecondsOf(returned[i]) = TimeOfDay(args.times[i].str)
              /\ Ordinal(returned[i]) =
                    Ordinal(args.start_date) + Cardinality(Rollovers(args.times, i))

\* the example of the specification: base 2024-01-01 and the times
\* 23:58:00, 23:59:30, 00:00:10, 00:01:00
C2_Witness ==
    /\ TimeReturned
    /\ args.start_date = datetime(2024, 1, 1, 0, 0, 0)
    /\ args.times = << [str |-> <<"2", "3", ":", "5", "8", ":", "0", "0">>],
                       [str |-> <<"2", "3", ":", "5", "9", ":", "3", "0">>],
                       [str |-> <<"0", "0", ":", "0", "0", ":", "1", "0">>],
                       [str |-> <<"0", "0", ":", "0", "1", ":", "0", "0">>] >>
    /\ returned = << datetime(2024, 1, 1, 23, 58, 0), datetime(2024, 1, 1, 23, 59, 30),
                     datetime(2024, 1, 2, 0, 0, 10), datetime(2024, 1, 2, 0, 1, 0) >>

\* ---- get_state ----
\* the positions of the phases of reader whose label contains one of its
\* finalized or aborted keywords
KeywordPhases(reader) ==
    { i \in 1..Len(reader.body["fase"]) :
        \/ AnyKeyIn(reader.state_finalized_keys, reader.body["fase"][i][2])
        \/ AnyKeyIn(reader.state_aborted_keys, reader.body["fase"][i][2]) }

IsTimeToken(cls, tok) == IF cls = "Afr13" THEN IsTime8(tok) ELSE IsTime5(tok)

\* a line that does not start with a time token is neither a phase line nor
\* a measurement line
Unrecognised(cls, line) == Split(line) = <<>> \/ ~IsTimeToken(cls, Split(line)[1])

\* the measurement and phase rows of the lines 2..k of lines_body, the
\* column-header line not looked at
RowsUpTo(cls, lines_body, k) ==
    read_body_loop(cls, SubSeq(lines_body, 1, k), 2, [data |-> <<>>, fase |-> <<>>], FALSE).body_dict

\* lines_body without the unrecognised lines after its first line
Recognised(cls, lines_body) ==
    LET Keep(line) == ~Unrecognised(cls, line)
    IN  <<lines_body[1]>> \o SelectSeq(Tail(lines_body), Keep)

DataOf(body) == IF "data" \in DOMAIN body THEN body["data"] ELSE <<>>

FaseOf(body) == IF "fase" \in DOMAIN body THEN body["fase"] ELSE <<>>

\* C6: on a tape whose column-header line is present, read_body raises
\* nothing, and the lines that start with no time token leave the
\* measurements and the phases as they are: the rows returned are the rows of
\* the tape without those lines.
C6_UnrecognisedIgnored ==
    (/\ op = "read_body"
     /\ Len(args.lines_body) >= Len(Preamble(args.cls))
     /\ \E i \in 2..Len(args.lines_body) : Unrecognised(args.cls, args.lines_body[i])) =>
        LET kept == Recognised(args.cls, args.lines_body)
            rows == RowsUpTo(args.cls, kept, Len(kept))
        IN  /\ raised = "none"
            /\ DataOf(returned) = rows.data
            /\ FaseOf(returned) = rows.fase

\* C7: read_body raises nothing on any tape, cut short or not, and returns
\* the measurement and phase rows of the lines that are present.
C7_TruncatedNoRaise ==
    op = "read_body" =>
        LET rows == RowsUpTo(args.cls, args.lines_body, Len(args.lines_body))
        IN  /\ raised = "none"
            /\ DataOf(returned) = rows.data
            /\ FaseOf(returned) = rows.fase

\* a LAC210 line made of HH:MM, whitespace and text whose first token is a float
FloatFirst(line) ==
    /\ Len(Split(line)) >= 2
    /\ IsTime5(Split(line)[1])
    /\ float(Split(line)[2]).exc = "none"

\* every token after the first is a float
AllFloat(valores) == \A k \in 2..Len(valores) : float(valores[k]).exc = "none"

\* the row a LAC210 or TDS measurement line gives
SerconRow(valores) ==
    [k \in 1..Len(valores) |->
        IF k = 1 THEN [str |-> valores[1] \o <<":", "0", "0">>] ELSE float(valores[k]).val]

IsCommaDecimal(tok) ==
    LET f == SplitOn(tok, ",")
    IN  Len(f) = 2 /\ f[1] # <<>> /\ f[2] # <<>> /\ AllDigits(f[1]) /\ AllDigits(f[2])

\* tok with '.' for ','
CommaToDot(tok) == [k \in 1..Len(tok) |-> IF tok[k] = "," THEN "." ELSE tok[k]]

\* C10: on a LAC210 tape, a line made of HH:MM and three comma-decimal
\* numbers is a measurement row with those three values, and no phase.
C10_CommaDecimals ==
    (op = "read_body" /\ args.cls = "SerconJpLac210") =>
        \A i \in 2..Len(args.lines_body) :
            LET valores == Split(args.lines_body[i])
            IN  (/\ Len(valores) = 4
                 /\ IsTime5(valores[1])
                 /\ \A k \in 2..4 : IsCommaDecimal(valores[k])) =>
                    /\ raised = "none"
                    /\ \E j \in 1..Len(DataOf(returned)) :
                          DataOf(returned)[j] =
                             SerconRow([k \in 1..4 |->
                                          IF k = 1 THEN valores[1] ELSE CommaToDot(valores[k])])
                    /\ \A j \in 1..Len(FaseOf(returned)) :
                          FaseOf(returned)[j][1] # [str |-> valores[1] \o <<":", "0", "0">>]

\* ---- the data object: header and body ----
\* the body a read_body_fita or read_all_fita call returned
BodyReturned(name, value) == IF name = "read_all_fita" THEN value[2] ELSE value

\* the timestamps of body were reconstructed: its first measurement carries a
\* datetime, no time string
Reconstructed(body) ==
    /\ "data" \in DOMAIN body
    /\ body["data"] # <<>>
    /\ "year" \in DOMAIN body["data"][1][1]

C5_HeaderIdempotent ==
    [][ \A r \in Readers :
          (/\ do.reader_fita = r
           /\ \E i \in 1..Len(calls') : calls'[i] = "read_header"
           /\ hist[r] # <<>>
           /\ hist'[r].size_header = hist[r].size_header) =>
              /\ hist'[r].exc = hist[r].exc
              /\ hist'[r].val = hist[r].val
              /\ readers[r].lines_file # <<>> =>
                    \A i \in 1..Len(calls') : calls'[i] # "read_file"
      ]_vars

\* C5 witness: the data object holds the header of the reader's file from an
\* earlier read_header_fita, and a read_header on the reader itself returned
\* the same header without reading the file
C5_Witness ==
    /\ op = "read_header"
    /\ raised = "none"
    /\ calls = <<"read_header">>
    /\ do.header_fita # <<>>
    /\ do.header_fita = returned
    /\ returned["file_name"] = readers[args.reader].file_name
    /\ hist[args.reader].val = returned

\* the header lines of the reader's file hold the line that carries the
\* start date and time
HasStartLine(self) ==
    \E i \in 1..Len(Upto(Files[self.file_name].lines, self.size_header)) :
        LET line == Files[self.file_name].lines[i]
        IN  IF self.cls = "SerconTds"
            THEN Len(SplitOn(line, "-")) = 3 /\ Strip(SplitOn(line, "-")[3]) = <<"I", "N", "I", "C", "I", "O", " ", "D", "E", " ", "C", "I", "C", "L", "O">>
            ELSE Len(Split(line)) = 2 /\ StartsWith(Split(line)[2], <<"I", "N", "I", "C", "I", "A", "N", "D", "O">>)

\* C8: when the header lines hold no start date, read_header raises nothing
\* and returns a header whose date is the day the file was last modified.
C8_DateFallback ==
    (/\ op \in {"read_header", "read_header_fita"}
     /\ args # <<>>
     /\ ~HasStartLine(readers[args.reader])) =>
        /\ raised = "none"
        /\ "Data:" \in DOMAIN returned
        /\ returned["Data:"] =
              strptime_dmY(SubSeq(Files[readers[args.reader].file_name].change_date, 1, 10)).val

(***************************************************************************)
(* The width of the measurement rows                                       *)
(***************************************************************************)
\* C11: every measurement row of a body returned by read_body holds, after
\* its time, one value for each column of header_columns but the first.
C11_RowWidth ==
    (/\ op = "read_body"
     /\ raised = "none"
     /\ "header_columns" \in DOMAIN returned) =>
        \A i \in 1..Len(DataOf(returned)) :
            Len(DataOf(returned)[i]) - 1 = Len(returned["header_columns"]) - 1

(***************************************************************************)
(* The queries on a read body: duration between phases                     *)
(* The messages are written in the module's ASCII alphabet (a for the      *)
(* letter a with a tilde).  The times of the body are datetimes, as        *)
(* read_body_fita leaves them.                                             *)
(***************************************************************************)
\* Python's None where a label may stand; no str of the model equals it
None == <<"None">>

\* the days of fim - inicio in seconds, without the seconds of the timedelta
total_seconds_days(fim, inicio) == 86400 * (Ordinal(fim) - Ordinal(inicio))

\* (fim - inicio).total_seconds() of two datetimes
total_seconds(fim, inicio) ==
    86400 * (Ordinal(fim) - Ordinal(inicio)) + SecondsOf(fim) - SecondsOf(inicio)

\* the position of the first row of fases that carries the label, 0 when no
\* row does: next((f[0] for f in fases if f[1] == fase), None)
FirstOccurrence(fases, fase) ==
    IF \E i \in 1..Len(fases) : fases[i][2] = fase
    THEN CHOOSE i \in 1..Len(fases) :
            /\ fases[i][2] = fase
            /\ \A j \in 1..(i - 1) : fases[j][2] # fase
    ELSE 0

\* calcular_tempo_entre_fases of a reader whose body is self_body: the text
\* "mm:ss", or "Erro: ..." in place of every exception
calcular_tempo_entre_fases(self_body, fase_inicio, fase_fim) ==
    LET str(x) == IF x = None THEN <<"N", "o", "n", "e">> ELSE x
        \* f"{n:02d}"
        Format02d(n) == IF n < 0 THEN <<"-">> \o ZeroPad(0 - n, 1) ELSE ZeroPad(n, 2)
    IN  IF "fase" \notin DOMAIN self_body
        THEN <<"E", "r", "r", "o", ":", " ", "F", "a", "s", "e", "s", " ", "n", "a", "o", " ", "e", "n", "c", "o", "n", "t", "r", "a", "d", "a", "s", " ", "n", "o", " ", "b", "o", "d", "y", ".">>
        ELSE LET fases  == self_body["fase"]
                 inicio == FirstOccurrence(fases, fase_inicio)
                 fim    == FirstOccurrence(fases, fase_fim)
             IN  IF inicio = 0 \/ fim = 0
                 THEN <<"E", "r", "r", "o", ":", " ", "F", "a", "s", "e", "(", "s", ")", " ", "'">> \o str(fase_inicio) \o <<"'", " ", "o", "u", " ", "'">> \o str(fase_fim)
                          \o <<"'", " ", "n", "a", "o", " ", "e", "n", "c", "o", "n", "t", "r", "a", "d", "a", "(", "s", ")", ".">>
                 ELSE LET total_segundos == total_seconds(fases[fim][1], fases[inicio][1])
                          minutos        == total_segundos \div 60
                          segundos       == total_segundos % 60
                      IN  Format02d(minutos) \o <<":">> \o Format02d(segundos)

(***************************************************************************)
(* The queries on a read body: statistics                                  *)
(* A dict whose order of insertion matters is the list of its items.  The  *)
(* measured values are finite floats; arithmetic on them is exact, which   *)
(* is what float arithmetic is on the whole numbers of the bounded bodies. *)
(***************************************************************************)
\* d[key] = value on a dict kept as the list of its (key, value) items
SetItem(d, key, value) ==
    IF \E i \in 1..Len(d) : d[i][1] = key
    THEN [i \in 1..Len(d) |-> IF d[i][1] = key THEN <<key, value>> ELSE d[i]]
    ELSE Append(d, <<key, value>>)

RECURSIVE Pow10(_)
Pow10(n) == IF n = 0 THEN 1 ELSE 10 * Pow10(n - 1)

\* round(num / den, 2) for den > 0: the nearest multiple of 0.01, the even one
\* of two that are equally near
round(num, den) ==
    LET q == (100 * num) \div den
        r == (100 * num) % den
    IN  Normalise(IF 2 * r < den \/ (2 * r = den /\ q % 2 = 0) THEN q ELSE q + 1, 0 - 2)

\* statistics.mode(valores) of a non-empty list, as the value moda takes: up
\* to Python 3.7 the single most common value, and None (StatisticsError
\* caught) when several values are equally common; from Python 3.8 on the
\* first of the most common values
mode(valores, python) ==
    LET Count(v)  == Cardinality({i \in 1..Len(valores) : valores[i] = v})
        Common(i) == \A j \in 1..Len(valores) : Count(valores[j]) <= Count(valores[i])
        first     == CHOOSE i \in 1..Len(valores) :
                        Common(i) /\ \A j \in 1..(i - 1) : ~Common(j)
    IN  IF python = "3.7" /\ \E i \in 1..Len(valores) : Common(i) /\ valores[i] # valores[first]
        THEN [k |-> "None", m |-> 0, e |-> 0]
        ELSE valores[first]

\* the for loop over fases that looks for the two timestamps of a window:
\* final is the row at which it breaks (the first row with fase_final that
\* does not carry fase_inicial), inicial the last row before it that carries
\* fase_inicial; 0 stands for a timestamp left None
PhaseWindow(fases, fase_inicial, fase_final) ==
    LET final == IF fase_final = fase_inicial THEN 0
                 ELSE FirstOccurrence(fases, fase_final)
        last  == IF final = 0 THEN Len(fases) ELSE final - 1
    IN  [final   |-> final,
         inicial |-> IF \E i \in 1..last : fases[i][2] = fase_inicial
                     THEN CHOOSE i \in 1..last :
                             /\ fases[i][2] = fase_inicial
                             /\ \A j \in (i + 1)..last : fases[j][2] # fase_inicial
                     ELSE 0]

\* compute_statistics_between_phases: the dict of the columns' statistics in
\* the order of header_columns; the base class returns what it has where the
\* LAC210 override raises.  With the class DataObjectFitaDigital it is the
\* data object's calcular_estatisticas_ciclo_entre_fases on its body_fita,
\* which raises as the LAC210 override does, and raises the ValueError of
\* max() of no values where the readers pass over a column without values.
compute_statistics_between_phases(cls, python, fase_inicial, fase_final, body) ==
    LET Fail(exc, estatisticas) ==
            IF cls \in {"SerconJpLac210", "DataObjectFitaDigital"} THEN [exc |-> exc]
            ELSE [exc |-> "none", val |-> estatisticas]
        Truthy(fase) == fase # None /\ fase # <<>>
        Num(x) == IF x.e >= 0 THEN x.m * Pow10(x.e) ELSE x.m
        Den(x) == IF x.e >= 0 THEN 1 ELSE Pow10(0 - x.e)
        Lt(x, y) == Num(x) * Den(y) < Num(y) * Den(x)
        \* a <= b on datetimes
        Le(a, b) == \/ Ordinal(a) < Ordinal(b)
                    \/ Ordinal(a) = Ordinal(b) /\ SecondsOf(a) <= SecondsOf(b)
        RECURSIVE sum(_, _)
        \* sum(valores) in units of 1 / den
        sum(valores, den) ==
            IF valores = <<>> THEN 0
            ELSE Num(valores[1]) * (den \div Den(valores[1])) + sum(Tail(valores), den)
        Statistics(valores) ==
            LET maximo == CHOOSE v \in {valores[i] : i \in 1..Len(valores)} :
                              \A i \in 1..Len(valores) : ~Lt(v, valores[i])
                minimo == CHOOSE v \in {valores[i] : i \in 1..Len(valores)} :
                              \A i \in 1..Len(valores) : ~Lt(valores[i], v)
                den    == Den(CHOOSE v \in {valores[i] : i \in 1..Len(valores)} :
                              \A i \in 1..Len(valores) : Den(valores[i]) <= Den(v))
                moda   == mode(valores, python)
            IN  [max   |-> round(Num(maximo), Den(maximo)),
                 min   |-> round(Num(minimo), Den(minimo)),
                 media |-> round(sum(valores, den), den * Len(valores)),
                 moda  |-> IF moda.k = "None" THEN moda ELSE round(Num(moda), Den(moda))]
        RECURSIVE columns(_, _, _, _)
        \* the for loop over colunas from column i on
        columns(colunas, dados, i, estatisticas) ==
            IF i > Len(colunas) THEN [exc |-> "none", val |-> estatisticas]
            ELSE IF \E n \in 1..Len(dados) : Len(dados[n]) < i + 1
            THEN Fail("Exception", estatisticas)
            ELSE IF dados = <<>> /\ cls = "DataObjectFitaDigital" THEN [exc |-> "ValueError"]
            ELSE IF dados = <<>> THEN columns(colunas, dados, i + 1, estatisticas)
            ELSE columns(colunas, dados, i + 1,
                         SetItem(estatisticas, colunas[i],
                                 Statistics([n \in 1..Len(dados) |-> dados[n][i + 1]])))
        colunas == IF "header_columns" \in DOMAIN body /\ body["header_columns"] # <<>>
                   THEN Tail(body["header_columns"]) ELSE <<>>
    IN  IF DOMAIN body = {} \/ "data" \notin DOMAIN body THEN Fail("ValueError", <<>>)
        ELSE IF body["data"] = <<>> THEN Fail("ValueError", <<>>)
        ELSE IF ~(Truthy(fase_inicial) /\ Truthy(fase_final))
        THEN columns(colunas, body["data"], 1, <<>>)
        ELSE IF "fase" \notin DOMAIN body THEN Fail("ValueError", <<>>)
        ELSE LET fases == body["fase"]
                 w     == PhaseWindow(fases, fase_inicial, fase_final)
                 Within(linha) == /\ Le(fases[w.inicial][1], linha[1])
                                  /\ Le(linha[1], fases[w.final][1])
             IN  IF w.inicial = 0 \/ w.final = 0 THEN Fail("ValueError", <<>>)
                 ELSE columns(colunas, SelectSeq(body["data"], Within), 1, <<>>)

\* formatar_estatisticas_colunas: the text of the statistics; a Duration
\* without exactly one ":" is a ValueError (unpacking).  str() of a float is
\* written for magnitudes below 10^16.
formatar_estatisticas_colunas(cls, file_name, statistics) ==
    LET upper(s) == [i \in 1..Len(s) |->
                        IF s[i] \in LowerLetters
                        THEN UpperSeq[CHOOSE k \in 1..26 : LowerSeq[k] = s[i]]
                        ELSE s[i]]
        spaces(n) == [i \in 1..n |-> " "]
        ljust(s, n) == s \o spaces(n - Len(s))
        rjust(s, n) == spaces(n - Len(s)) \o s
        RECURSIVE replace(_, _)
        \* s.replace(old, "")
        replace(s, old) ==
            IF s = <<>> THEN <<>>
            ELSE IF StartsWith(s, old) THEN replace(From(s, Len(old)), old)
            ELSE <<s[1]>> \o replace(Tail(s), old)
        digits(x) == IF x.e >= 0 THEN ZeroPad(x.m * Pow10(x.e), 1) \o <<".", "0">>
                     ELSE ZeroPad(x.m \div Pow10(0 - x.e), 1) \o <<".">>
                              \o ZeroPad(x.m % Pow10(0 - x.e), 0 - x.e)
        strOf(x) == IF x.k = "None" THEN <<"N", "o", "n", "e">>
                    ELSE IF x.m < 0 THEN <<"-">> \o digits([x EXCEPT !.m = 0 - x.m])
                    ELSE digits(x)
        RECURSIVE variables(_)
        \* the lines of the columns of one phase
        variables(dados) ==
            IF dados = <<>> THEN <<>>
            ELSE IF dados[1][1] = <<"D", "u", "r", "a", "t", "i", "o", "n">> THEN variables(Tail(dados))
            ELSE << ljust(dados[1][1], 12) \o <<" ">> \o rjust(strOf(dados[1][2].min), 10) \o <<" ">>
                        \o rjust(strOf(dados[1][2].max), 10) \o <<" ">>
                        \o rjust(strOf(dados[1][2].media), 10) \o <<" ">>
                        \o rjust(strOf(dados[1][2].moda), 10) >>
                 \o variables(Tail(dados))
        Duration(dados) == dados[CHOOSE i \in 1..Len(dados) : dados[i][1] = <<"D", "u", "r", "a", "t", "i", "o", "n">>][2]
        RECURSIVE phases(_)
        \* the lines of the phases
        phases(items) ==
            IF items = <<>> THEN <<>>
            ELSE LET parts == SplitOn(Duration(items[1][2]), ":")
                 IN  << <<"#", "#", " ">> \o upper(items[1][1]) \o <<" ", "-", " ">> \o parts[1] \o <<" ", "m", "i", "n", " ">>
                            \o parts[2] \o <<" ", "s", "e", "g", "\n">>,
                        ljust(<<"G", "r", "a", "n", "d", "e", "z", "a">>, 12) \o <<" ">> \o rjust(<<"M", "i", "n">>, 10) \o <<" ">>
                            \o rjust(<<"M", "a", "x">>, 10) \o <<" ">> \o rjust(<<"M", "e", "d">>, 10) \o <<" ">>
                            \o rjust(<<"M", "o", "d", "a">>, 10) >>
                     \o variables(items[1][2]) \o << <<>> >> \o phases(Tail(items))
        linhas == IF cls = "SerconJpLac210" THEN <<>>
                  ELSE << <<"#", "#", "#", " ", "E", "s", "t", "a", "t", "i", "s", "t", "i", "c", "a", "s", " ", "d", "o", " ", "C", "i", "c", "l", "o", " ">>
                            \o replace(SplitOn(file_name, "/")[Len(SplitOn(file_name, "/"))], <<".", "t", "x", "t">>) >>
    IN  IF \E i \in 1..Len(statistics) :
              Len(SplitOn(Duration(statistics[i][2]), ":")) # 2
        THEN [exc |-> "ValueError"]
        ELSE [exc |-> "none", val |-> Join(linhas \o phases(statistics), <<"\n">>)]

\* compute_statistics of a reader of class cls whose body is self_body: the
\* text with the warnings, and the dict estatisticas the text is made from;
\* <<None>> is None where a list of labels may stand
compute_statistics(cls, python, file_name, self_body, phases, body) ==
    LET labels == [n \in 1..Len(body["fase"]) |-> body["fase"][n][2]]
        Present(fase) == \E n \in 1..Len(labels) : labels[n] = fase
        RECURSIVE proxima(_, _, _)
        \* the for loop over phases[i+1:] from position j on: the label found
        \* and the warnings for the labels passed over
        proxima(fase_atual, j, error_msg) ==
            IF j > Len(phases) THEN [fase |-> None, error_msg |-> error_msg]
            ELSE IF Present(phases[j]) THEN [fase |-> phases[j], error_msg |-> error_msg]
            ELSE proxima(fase_atual, j + 1,
                    Append(error_msg, <<"N", "a", "o", " ", "f", "o", "i", " ", "p", "o", "s", "s", "i", "v", "e", "l", " ", "e", "n", "c", "o", "n", "t", "r", "a", "r", " ", "a", " ", "p", "r", "o", "x", "i", "m", "a", " ", "f", "a", "s", "e", " ">> \o phases[j]
                                          \o <<" ", "p", "a", "r", "a", " ">> \o fase_atual \o <<":", " ", "'">> \o phases[j]
                                          \o <<"'", " ", "i", "s", " ", "n", "o", "t", " ", "i", "n", " ", "l", "i", "s", "t">>))
        RECURSIVE loop(_, _, _)
        \* the for loop over range(len(phases) - 1) from position i on
        loop(i, estatisticas, error_msg) ==
            IF i > Len(phases) - 1
            THEN [exc |-> "none", estatisticas |-> estatisticas, error_msg |-> error_msg]
            ELSE IF ~Present(phases[i])
            THEN loop(i + 1, estatisticas,
                      Append(error_msg, <<"A", " ", "f", "a", "s", "e", " ">> \o phases[i] \o <<" ", "n", "a", "o", " ", "f", "o", "i", " ", "e", "n", "c", "o", "n", "t", "r", "a", "d", "a", ":", " ", "'">>
                                            \o phases[i] \o <<"'", " ", "i", "s", " ", "n", "o", "t", " ", "i", "n", " ", "l", "i", "s", "t">>))
            ELSE The({ The({
                    IF stats.exc # "none" THEN [exc |-> stats.exc]
                    ELSE loop(i + 1,
                              SetItem(estatisticas, phases[i],
                                      <<<<<<"D", "u", "r", "a", "t", "i", "o", "n">>, calcular_tempo_entre_fases(self_body, phases[i], p.fase)>>>>
                                          \o stats.val),
                              IF p.fase = None
                              THEN Append(p.error_msg,
                                          <<"N", "a", "o", " ", "f", "o", "i", " ", "p", "o", "s", "s", "i", "v", "e", "l", " ", "e", "n", "c", "o", "n", "t", "r", "a", "r", " ", "a", " ", "p", "r", "o", "x", "i", "m", "a", " ", "f", "a", "s", "e", " ", "p", "a", "r", "a", " ">>
                                              \o phases[i] \o <<".", " ", "C", "a", "l", "c", "u", "l", "a", "n", "d", "o", " ", "a", "t", "e", " ", "o", " ", "f", "i", "n", "a", "l", " ", "d", "o", " ", "c", "i", "c", "l", "o">>)
                              ELSE p.error_msg)
                    : stats \in {compute_statistics_between_phases(cls, python, phases[i], p.fase, body)} })
                    : p \in {proxima(phases[i], i + 1, error_msg)} })
    IN  IF DOMAIN body = {} \/ "data" \notin DOMAIN body THEN [exc |-> "ValueError"]
        ELSE IF phases = <<None>> \/ phases = <<>> THEN [exc |-> "ValueError"]
        ELSE IF "fase" \notin DOMAIN body THEN [exc |-> "KeyError"]
        ELSE The({ IF r.exc # "none" THEN [exc |-> r.exc]
                   ELSE The({ IF text.exc # "none" THEN [exc |-> text.exc]
                              ELSE [exc |-> "none", val |-> <<text.val, r.error_msg>>,
                                    estatisticas |-> r.estatisticas]
                              : text \in {formatar_estatisticas_colunas(cls, file_name, r.estatisticas)} })
                   : r \in {loop(1, <<>>, <<>>)} })

(***************************************************************************)
(* Specification SpecQuery: the queries of a reader on bounded bodies      *)
(***************************************************************************)
\* the most rows of measurements, and of phases, in a queried body
MaxRows == 3

\* the labels asked for: two that tapes carry and one that none does
AskedLabels == {<<"A">>, <<"B">>, <<"Z">>}

\* converted bodies: phase rows with the labels A and B at strictly increasing
\* minutes, and no measurement rows or one a minute, each with one value; and
\* the bodies of tapes of which nothing was read
QueryBodies ==
    LET Stamp(minute) == datetime(2024, 1, 1, 10, minute, 0)
        Rising(n) == { s \in [1..n -> 1..MaxRows] : \A i \in 1..(n - 1) : s[i] < s[i + 1] }
        PhaseRows ==
            UNION { { [i \in 1..n |-> <<Stamp(t[i]), l[i]>>] :
                        t \in Rising(n), l \in [1..n -> {<<"A">>, <<"B">>}] } : n \in 0..MaxRows }
        DataRows ==
            {<<>>} \cup { [i \in 1..MaxRows |-> <<Stamp(i), Normalise(v[i], 0)>>] :
                            v \in [1..MaxRows -> {1, 2}] }
    IN  { [header_columns |-> <<<<"H", "O", "R", "A">>, <<"T", "E", "M", "P">>>>, data |-> d, fase |-> f] :
            d \in DataRows, f \in PhaseRows }
        \cup { <<>>, [fase |-> <<>>] }

InitQuery ==
    /\ op = "init"
    /\ args \in [cls : {"SerconJpLac210", "SerconTds"}, python : {"3.7", "3.8"},
                 file_name : {<<"/", "f", "i", "t", "a", "s", "/", "c", "1", ".", "t", "x", "t">>}, body : QueryBodies]
    /\ raised = "none"
    /\ returned = <<>>
    /\ calls = <<>>
    /\ readers = <<>>
    /\ do = <<>>
    /\ hist = <<>>

CallTempoEntreFases(fase_inicio, fase_fim) ==
    /\ op = "init"
    /\ op' = "calcular_tempo_entre_fases"
    /\ calls' = <<fase_inicio, fase_fim>>
    /\ raised' = "none"
    /\ returned' = calcular_tempo_entre_fases(args.body, fase_inicio, fase_fim)
    /\ UNCHANGED <<args, readers, do, hist>>

CallBetweenPhases(fase_inicial, fase_final) ==
    /\ op = "init"
    /\ op' = "compute_statistics_between_phases"
    /\ calls' = <<fase_inicial, fase_final>>
    /\ LET r == compute_statistics_between_phases(args.cls, args.python,
                                                  fase_inicial, fase_final, args.body)
       IN  /\ raised' = r.exc
           /\ returned' = IF r.exc = "none" THEN r.val ELSE <<>>
    /\ UNCHANGED <<args, readers, do, hist>>

\* reader.compute_statistics(phases, header, body) with the reader's own body;
\* hist keeps the dict estatisticas
CallComputeStatistics(phases) ==
    /\ op = "init"
    /\ op' = "compute_statistics"
    /\ calls' = phases
    /\ LET r == compute_statistics(args.cls, args.python, args.file_name,
                                   args.body, phases, args.body)
       IN  /\ raised' = r.exc
           /\ returned' = IF r.exc = "none" THEN r.val ELSE <<>>
           /\ hist' = IF r.exc = "none" THEN r.estatisticas ELSE <<>>
    /\ UNCHANGED <<args, readers, do>>

\* DataObjectFitaDigital.compute_statistics(phases) of a data object whose
\* body_fita, the body of its reader, is loaded
DoComputeStatistics(phases) ==
    /\ op = "init"
    /\ "data" \in DOMAIN args.body
    /\ op' = "do.compute_statistics"
    /\ calls' = phases
    /\ LET r == compute_statistics(args.cls, args.python, args.file_name,
                                   args.body, phases, args.body)
       IN  /\ raised' = r.exc
           /\ returned' = IF r.exc = "none" THEN r.val[1] ELSE <<>>
           /\ hist' = IF r.exc = "none" THEN r.estatisticas ELSE <<>>
    /\ UNCHANGED <<args, readers, do>>

\* the phase lists asked for: None, and the lists of distinct labels
AskedLists ==
    {<<None>>} \cup { l \in SeqsUpTo(AskedLabels, Cardinality(AskedLabels)) :
                        \A i, j \in 1..Len(l) : l[i] = l[j] => i = j }

NextQuery ==
    \/ \E fase_inicio \in AskedLabels, fase_fim \in AskedLabels :
            CallTempoEntreFases(fase_inicio, fase_fim)
    \/ \E fase_inicial \in AskedLabels \cup {None}, fase_final \in AskedLabels \cup {None} :
            CallBetweenPhases(fase_inicial, fase_final)
    \/ \E phases \in AskedLists : CallComputeStatistics(phases)
    \/ \E phases \in AskedLists : DoComputeStatistics(phases)

SpecQuery == InitQuery /\ [][NextQuery]_vars

(***************************************************************************)
(* The D-value model of DataObjectFitaDigital                              *)
(* A population after the first point is N0 * 10 ** (-(s / 60) / D) with   *)
(* D = 3.8 * 10 ** x minutes, s the accumulated seconds and x the exact    *)
(* fraction (50 - temp) / 50 + (0.00045 - C) / 0.0045.  It is kept as the  *)
(* record of N0, s and x, and as the float 0.0 where the power underflows: *)
(* 10 ** -q is 0.0 for q above 1075 * log10(2) = 323.607..., which is      *)
(* s * 10 ** -x >= 73783.  Rounding of the other results is not modelled.  *)
(***************************************************************************)
calcular_mortalidade_intervalos(body_fita, N0, fase_inicial, fase_final, index_eto, index_temp) ==
    LET RECURSIVE gcd(_, _)
        gcd(a, b) == IF b = 0 THEN a ELSE gcd(b, a % b)
        abs(a) == IF a < 0 THEN 0 - a ELSE a
        \* a measured value in units of 10 ** -k, for k no less than its decimals
        Units(v, k) == v.m * Pow10(v.e + k)
        Decimals(v) == IF v.e < 0 THEN 0 - v.e ELSE 0
        \* x of a row: ((50 - temp) * 27 + (6.75 - eto_kg) * 20) / 1350, eto_kg
        \* being 0.1 for a mass above 50 and 6.75 making C the reference C_base
        Exponent(linha) ==
            LET temp == IF index_temp # 0 THEN linha[index_temp + 1] ELSE Normalise(54, 0)
                eto  == IF index_eto # 0 THEN linha[index_eto + 1] ELSE Normalise(675, 0 - 2)
                kg   == IF Units(eto, Decimals(eto)) > 50 * Pow10(Decimals(eto))
                        THEN Normalise(1, 0 - 1) ELSE eto
                k    == IF Decimals(temp) > Decimals(kg)
                        THEN (IF Decimals(temp) > 2 THEN Decimals(temp) ELSE 2)
                        ELSE (IF Decimals(kg) > 2 THEN Decimals(kg) ELSE 2)
                num  == (50 * Pow10(k) - Units(temp, k)) * 27
                            + (675 * Pow10(k - 2) - Units(kg, k)) * 20
                den  == 1350 * Pow10(k)
                g    == gcd(abs(num), den)
            IN  <<num \div g, den \div g>>
        \* N0 * (10 ** (-log_reducao)) after s seconds at the exponent x
        Population(s, x) ==
            LET floor == x[1] \div x[2]
                ceil  == 0 - ((0 - x[1]) \div x[2])
                vanishes == IF ceil <= 0 THEN 0 - ceil >= 5 \/ s * Pow10(0 - ceil) >= 73783
                            ELSE ceil <= 4 /\ s >= 73783 * Pow10(ceil)
                stays    == IF floor <= 0 THEN 0 - floor <= 4 /\ s * Pow10(0 - floor) <= 73782
                            ELSE floor >= 5 \/ s <= 73782 * Pow10(floor)
            IN  IF N0.m = 0 \/ (s > 0 /\ vanishes) THEN Normalise(0, 0)
                ELSE IF s = 0 THEN N0
                ELSE [k |-> IF stays THEN "pow" ELSE "pow or 0.0", N0 |-> N0, s |-> s, x |-> x]
        RECURSIVE tempo_acumulado(_, _)
        \* the seconds accumulated up to row i of dados
        tempo_acumulado(dados, i) ==
            IF i = 1 THEN 0
            ELSE tempo_acumulado(dados, i - 1) + total_seconds(dados[i][1], dados[i - 1][1])
        Le(a, b) == \/ Ordinal(a) < Ordinal(b)
                    \/ Ordinal(a) = Ordinal(b) /\ SecondsOf(a) <= SecondsOf(b)
        Needed == IF index_temp > index_eto THEN index_temp + 1 ELSE index_eto + 1
    IN  IF DOMAIN body_fita = {} \/ "data" \notin DOMAIN body_fita THEN [exc |-> "ValueError"]
        ELSE IF body_fita["data"] = <<>> THEN [exc |-> "ValueError"]
        ELSE IF "fase" \notin DOMAIN body_fita THEN [exc |-> "Exception"]
        ELSE LET fases == body_fita["fase"]
                 w     == PhaseWindow(fases, fase_inicial, fase_final)
                 Within(linha) == /\ Le(fases[w.inicial][1], linha[1])
                                  /\ Le(linha[1], fases[w.final][1])
             IN  IF w.inicial = 0 \/ w.final = 0 THEN [exc |-> "ValueError"]
                 ELSE The({
                        IF dados = <<>> THEN [exc |-> "ValueError"]
                        ELSE IF \E i \in 1..(Len(dados) - 1) :
                                    \/ Len(dados[i]) < Needed
                                    \/ abs(Exponent(dados[i])[1]) >= 300 * Exponent(dados[i])[2]
                        THEN [exc |-> "Exception"]
                        ELSE [exc |-> "none",
                              val |-> [i \in 1..Len(dados) |->
                                         IF i = 1 THEN <<dados[1][1], N0>>
                                         ELSE <<dados[i][1],
                                                Population(tempo_acumulado(dados, i),
                                                           Exponent(dados[i - 1]))>>]]
                        : dados \in {SelectSeq(body_fita["data"], Within)} })

(***************************************************************************)
(* Specification SpecLethal: the lethality curve on bounded bodies, asked  *)
(* for twice                                                               *)
(***************************************************************************)
\* converted bodies of an AFR13 tape (HORA PCI TCI UR ETO): phase rows as in
\* QueryBodies; measurement rows a minute apart, each at 50 degrees with a
\* mass of sterilant of 6.75 or 60, or at 300 degrees with 6.75; rows of one
\* value; or no rows; and the body of a tape of which nothing was read
LethalBodies ==
    LET Stamp(minute) == datetime(2024, 1, 1, 10, minute, 0)
        Row(minute, v) == <<Stamp(minute), Normalise(1, 0), Normalise(v[1], 0),
                            Normalise(3, 0), Normalise(v[2], 0 - 2)>>
        DataRows ==
            { <<>>, [i \in 1..MaxRows |-> <<Stamp(i), Normalise(1, 0)>>] }
            \cup { [i \in 1..MaxRows |-> Row(i, v[i])] :
                     v \in [1..MaxRows -> {<<50, 675>>, <<50, 6000>>, <<300, 675>>}] }
    IN  { [header_columns |-> <<<<"H", "O", "R", "A">>, <<"P", "C", "I">>, <<"T", "C", "I">>, <<"U", "R">>, <<"E", "T", "O">>>>,
           data |-> d, fase |-> b["fase"]] :
            d \in DataRows, b \in {q \in QueryBodies : "data" \in DOMAIN q /\ q["data"] = <<>>} }
        \cup { <<>> }

InitLethal ==
    /\ op = "init"
    /\ args \in [N0 : {Normalise(1000000, 0)}, fase_inicial : AskedLabels,
                 fase_final : AskedLabels, body : LethalBodies]
    /\ raised = "none"
    /\ returned = <<>>
    /\ calls = <<>>
    /\ readers = <<>>
    /\ do = <<>>
    /\ hist = <<>>

\* do.calcular_mortalidade_intervalos(N0, fase_inicial, fase_final) with the
\* default plot, index_eto and index_temp; hist keeps what the calls returned
CallMortalidade ==
    /\ Len(hist) < 2
    /\ op' = "calcular_mortalidade_intervalos"
    /\ calls' = Append(calls, "calcular_mortalidade_intervalos")
    /\ LET r == calcular_mortalidade_intervalos(args.body, args.N0, args.fase_inicial,
                                                args.fase_final, 4, 2)
       IN  /\ raised' = r.exc
           /\ returned' = IF r.exc = "none" THEN r.val ELSE <<>>
           /\ hist' = Append(hist, IF r.exc = "none" THEN r.val ELSE <<>>)
    /\ UNCHANGED <<args, readers, do>>

NextLethal == CallMortalidade

SpecLethal == InitLethal /\ [][NextLethal]_vars


(***************************************************************************)
(* Specification SpecPairs: two data objects, each with a reader of its    *)
(* own on a file of its own, called in any order                           *)
(***************************************************************************)
Pairs == {"p1", "p2"}

\* the calls made on each pair
MaxSteps == 2

\* the class and the file of the reader of each pair: two readers of one
\* class, one of them on a tape without its start date, and two readers of
\* different classes
PairTapes ==
    { [p1 |-> <<"SerconJpLac210", "lac_nodate">>, p2 |-> <<"SerconJpLac210", "lac_ok">>],
      [p1 |-> <<"SerconJpLac210", "lac_late">>, p2 |-> <<"SerconTds", "tds_ok">>] }

\* the data objects and the readers right after
\* do.register_reader_fita(reader_class(file_path), size_header=header_lines)
\* with the line count of the profile
NewPairs(tapes) ==
    [do |-> [p \in Pairs |-> [NewDataObject EXCEPT !.reader_fita = p]],
     readers |-> [p \in Pairs |-> NewReader(tapes[p][1], tapes[p][2])]]

\* the full path a reader is constructed on, for each of the Files
FilePath(file_name) ==
    CASE file_name = "lac_ok" -> <<"/", "f", "i", "t", "a", "s", "/", "l", "a", "c", "_", "o", "k", ".", "t", "x", "t">>
      [] file_name = "lac_late" -> <<"/", "f", "i", "t", "a", "s", "/", "l", "a", "c", "_", "l", "a", "t", "e", ".", "t", "x", "t">>
      [] file_name = "lac_nodate" -> <<"/", "f", "i", "t", "a", "s", "/", "l", "a", "c", "_", "n", "o", "d", "a", "t", "e", ".", "t", "x", "t">>
      [] file_name = "tds_ok" -> <<"/", "f", "i", "t", "a", "s", "/", "t", "d", "s", "_", "o", "k", ".", "t", "x", "t">>
      [] file_name = "tds_nodate" -> <<"/", "f", "i", "t", "a", "s", "/", "t", "d", "s", "_", "n", "o", "d", "a", "t", "e", ".", "t", "x", "t">>
      [] file_name = "tds_cut" -> <<"/", "f", "i", "t", "a", "s", "/", "t", "d", "s", "_", "c", "u", "t", ".", "t", "x", "t">>

\* cycle_type_id.fases_fita_digital.split(','): the phases a cycle type asks
\* statistics for, the cycle type being the one that names the reader class
CyclePhases(cls) ==
    IF cls = "SerconJpLac210" THEN <<<<"E", "S", "T", "E", "R", "I", "L", "I", "Z", "A", "C", "A", "O">>, <<"F", "I", "M", " ", "D", "E", " ", "C", "I", "C", "L", "O">>>>
    ELSE <<<<"E", "N", "X", "A", "G", "U", "E">>, <<"C", "I", "C", "L", "O", " ", "A", "B", "O", "R", "T", "A", "D", "O">>>>

\* do.compute_statistics that reads the tape on every call and keeps the
\* phases asked for in body_fita
do_compute_statistics_kept(python, phases, do_, self) ==
    The({ [do |-> [loaded.do EXCEPT !.body_fita = Put(@, "phases", phases)],
           self |-> loaded.self, exc |-> loaded.exc, val |-> <<>>,
           calls |-> <<"do.compute_statistics">> \o loaded.calls, hdr |-> loaded.hdr]
        : loaded \in {read_all_fita(do_, self)} })

\* do.compute_statistics(phases): read_all_fita while body_fita holds no
\* 'data', then the text of reader_fita.compute_statistics
do_compute_statistics(python, phases, do_, self) ==
    The({ IF loaded.exc # "none"
          THEN [loaded EXCEPT !.calls = <<"do.compute_statistics">> \o @, !.val = <<>>]
          ELSE The({ [do |-> loaded.do, self |-> loaded.self,
                      exc |-> st.exc,
                      val |-> IF st.exc = "none" THEN st.val[1] ELSE <<>>,
                      calls |-> <<"do.compute_statistics">> \o loaded.calls \o <<"compute_statistics">>,
                      hdr |-> loaded.hdr]
                   : st \in {compute_statistics(self.cls, python, FilePath(self.file_name),
                                                loaded.self.body,
                                                phases, loaded.do.body_fita)} })
        : loaded \in {IF DOMAIN do_.body_fita = {} \/ "data" \notin DOMAIN do_.body_fita
                      THEN read_all_fita(do_, self)
                      ELSE [do |-> do_, self |-> self, exc |-> "none", val |-> <<>>,
                            calls |-> <<>>, hdr |-> <<>>]} })

\* the outcome of the call name on the data object do_ and its reader self
PairStep(name, python, do_, self) ==
    CASE name = "read_header_fita" -> read_header_fita(do_, self)
      [] name = "read_body_fita" -> read_body_fita(do_, self)
      [] name = "compute_statistics" -> do_compute_statistics(python, CyclePhases(self.cls), do_, self)

\* every attribute of a reader and of a data object shared by all instances,
\* as attributes assigned on the class are: the outcome r of a call on pair p
\* shows in the body and the header of every pair
SetAttributes_classlevel(w, p, r) ==
    [do |-> [q \in DOMAIN w.do |->
                IF q = p THEN r.do
                ELSE [w.do[q] EXCEPT !.header_fita = r.do.header_fita,
                                     !.body_fita = r.do.body_fita]],
     readers |-> [q \in DOMAIN w.readers |->
                IF q = p THEN r.self
                ELSE [w.readers[q] EXCEPT !.lines_file = r.self.lines_file,
                                          !.body = r.self.body]]]

\* the objects w after a call on pair p with outcome r: every attribute is
\* assigned on self in __init__, so only the data object and the reader of
\* pair p change
SetAttributes(w, p, r) ==
    [do |-> [w.do EXCEPT ![p] = r.do], readers |-> [w.readers EXCEPT ![p] = r.self]]

InitPairs ==
    /\ op = "init"
    /\ args = <<>>
    /\ raised = "none"
    /\ returned = <<>>
    /\ calls = <<>>
    /\ \E tapes \in PairTapes :
          /\ readers = NewPairs(tapes).readers
          /\ do = NewPairs(tapes).do
    /\ hist = [p \in Pairs |-> <<>>]

\* one call on the data object of pair p
PairCall(p, name, python) ==
    /\ Len(hist[p]) < MaxSteps
    /\ \E r \in {PairStep(name, python, do[p], readers[p])} :
          /\ op' = name
          /\ args' = [pair |-> p]
          /\ raised' = r.exc
          /\ returned' = IF r.exc = "none" THEN r.val ELSE <<>>
          /\ calls' = r.calls
          /\ \E w \in {SetAttributes([do |-> do, readers |-> readers], p, r)} :
                /\ do' = w.do
                /\ readers' = w.readers
    /\ hist' = [hist EXCEPT ![p] = Append(@, name)]

NextPairs ==
    \E p \in Pairs, name \in {"read_header_fita", "read_body_fita", "compute_statistics"},
       python \in {"3.7", "3.8"} : PairCall(p, name, python)

SpecPairs == InitPairs /\ [][NextPairs]_vars

(***************************************************************************)
(* Properties of independent pairs                                         *)
(***************************************************************************)
\* the objects after the calls steps made on pair p alone, in order, on
\* objects w
RECURSIVE RunAlone(_, _, _)
RunAlone(w, p, steps) ==
    IF steps = <<>> THEN w
    ELSE RunAlone(The({ SetAttributes(w, p, r)
                        : r \in {PairStep(Head(steps), "3.8", w.do[p], w.readers[p])} }),
                  p, Tail(steps))

\* the two pairs as they were constructed
FreshPairs ==
    NewPairs([p \in Pairs |-> <<readers[p].cls, readers[p].file_name>>])

TempoCalled == op = "calcular_tempo_entre_fases" /\ "fase" \in DOMAIN args.body

\* the two labels of the call both occur among the phases of the body
BothOccur ==
    /\ FirstOccurrence(args.body["fase"], calls[1]) > 0
    /\ FirstOccurrence(args.body["fase"], calls[2]) > 0

\* the first occurrence of the first label is later than that of the second
Reversed ==
    FirstOccurrence(args.body["fase"], calls[1]) > FirstOccurrence(args.body["fase"], calls[2])

\* C12: the duration query fails (raises) when a label is absent from the
\* phases and when the first label's first timestamp is after the second's;
\* what it returns normally is the text of a duration that is not negative.
C12_DurationErrors ==
    TempoCalled =>
        /\ (~BothOccur \/ Reversed) => raised # "none"
        /\ raised = "none" => /\ returned[1] # "-"
                              /\ AllDigits(SubSeq(returned, 1, 2))

StatisticsCalled == op \in {"compute_statistics", "do.compute_statistics"}

\* the queried body is a loaded one: it has measurement rows and phases
LoadedBody ==
    /\ "data" \in DOMAIN args.body
    /\ args.body["data"] # <<>>
    /\ "fase" \in DOMAIN args.body

OnTape(fase) == FirstOccurrence(args.body["fase"], fase) > 0

\* a warning of the returned list names the label
Warned(fase) ==
    \E i \in 1..Len(returned[2]) : Contains(returned[2][i], <<"f", "a", "s", "e", " ">> \o fase \o <<" ">>)

\* the dict estatisticas holds aggregates of the column TEMP for the label
HasAggregates(fase) ==
    \E i \in 1..Len(hist) :
        /\ hist[i][1] = fase
        /\ \E j \in 1..Len(hist[i][2]) : hist[i][2][j][1] = <<"T", "E", "M", "P">>

\* C13: a statistics query on a loaded body for two or more labels raises
\* nothing; every requested label that is not on the tape has a warning in
\* the returned list, and every requested label but the last that is on the
\* tape has its aggregates.
C13_AbsentLabelsSkipped ==
    (StatisticsCalled /\ LoadedBody /\ Len(calls) >= 2) =>
        /\ raised = "none"
        /\ op = "compute_statistics" =>
              \A i \in 1..Len(calls) : ~OnTape(calls[i]) => Warned(calls[i])
        /\ \A i \in 1..(Len(calls) - 1) : OnTape(calls[i]) => HasAggregates(calls[i])

\* the position in the requested list of the first label after position i
\* that is on the tape, 0 when there is none
NextOnTape(i) ==
    IF \E j \in (i + 1)..Len(calls) : OnTape(calls[j])
    THEN CHOOSE j \in (i + 1)..Len(calls) :
            OnTape(calls[j]) /\ \A n \in (i + 1)..(j - 1) : ~OnTape(calls[n])
    ELSE 0

NotAfter(a, b) ==
    \/ Ordinal(a) < Ordinal(b)
    \/ Ordinal(a) = Ordinal(b) /\ SecondsOf(a) <= SecondsOf(b)

\* the values (whole numbers in the bounded bodies) measured from the first
\* occurrence of fase to the first occurrence of proxima, both included
WindowValues(fase, proxima) ==
    LET start == args.body["fase"][FirstOccurrence(args.body["fase"], fase)][1]
        end   == args.body["fase"][FirstOccurrence(args.body["fase"], proxima)][1]
        In(linha) == NotAfter(start, linha[1]) /\ NotAfter(linha[1], end)
        rows  == SelectSeq(args.body["data"], In)
    IN  [n \in 1..Len(rows) |-> rows[n][2].m]

RECURSIVE SumOf(_)
SumOf(s) == IF s = <<>> THEN 0 ELSE s[1] + SumOf(Tail(s))

\* the aggregates of the column TEMP that estatisticas holds for the label
AggregatesOf(fase) ==
    LET dados == hist[CHOOSE i \in 1..Len(hist) : hist[i][1] = fase][2]
    IN  dados[CHOOSE j \in 1..Len(dados) : dados[j][1] = <<"T", "E", "M", "P">>][2]

\* C14: the aggregates of a requested label P are the minimum, the maximum and
\* the mean of exactly the measurements from the first occurrence of P to the
\* first occurrence of the next requested label on the tape (the two
\* timestamps of the duration of P), and there are none when no measurement
\* lies there.
C14_WindowOfFirstOccurrences ==
    (op = "compute_statistics" /\ raised = "none" /\ LoadedBody) =>
        \A i \in 1..(Len(calls) - 1) :
            (OnTape(calls[i]) /\ NextOnTape(i) # 0) =>
                LET vals == WindowValues(calls[i], calls[NextOnTape(i)])
                IN  IF vals = <<>> THEN ~HasAggregates(calls[i])
                    ELSE /\ HasAggregates(calls[i])
                         /\ \E n \in 1..Len(vals) : AggregatesOf(calls[i]).min = Normalise(vals[n], 0)
                         /\ \E n \in 1..Len(vals) : AggregatesOf(calls[i]).max = Normalise(vals[n], 0)
                         /\ \A n \in 1..Len(vals) :
                               /\ AggregatesOf(calls[i]).min.m * Pow10(AggregatesOf(calls[i]).min.e) <= vals[n]
                               /\ AggregatesOf(calls[i]).max.m * Pow10(AggregatesOf(calls[i]).max.e) >= vals[n]
                         /\ AggregatesOf(calls[i]).media = round(SumOf(vals), Len(vals))

\* the label occurs exactly once among the phases of the body
OccursOnce(fase) ==
    Cardinality({i \in 1..Len(args.body["fase"]) : args.body["fase"][i][2] = fase}) = 1

\* a call of compute_statistics_between_phases whose window is the same
\* under every reading: both labels occur once, the first before the second
WindowCalled ==
    /\ op = "compute_statistics_between_phases"
    /\ raised = "none"
    /\ LoadedBody
    /\ calls[1] # None /\ calls[2] # None
    /\ OccursOnce(calls[1]) /\ OccursOnce(calls[2])
    /\ FirstOccurrence(args.body["fase"], calls[1]) < FirstOccurrence(args.body["fase"], calls[2])

\* the moda returned for the column TEMP
ModaReturned == returned[CHOOSE j \in 1..Len(returned) : returned[j][1] = <<"T", "E", "M", "P">>][2].moda

\* C15: the moda of a window is a value that occurs more than once among the
\* values of the window, and it is None when no value of the window repeats.
C15_ModeRepeats ==
    WindowCalled =>
        LET vals == WindowValues(calls[1], calls[2])
            Times(v) == Cardinality({n \in 1..Len(vals) : vals[n] = v})
        IN  /\ ModaReturned.k # "None" =>
                  \E n \in 1..Len(vals) : /\ ModaReturned = Normalise(vals[n], 0)
                                          /\ Times(vals[n]) > 1
            /\ (\A n \in 1..Len(vals) : Times(vals[n]) = 1) => ModaReturned.k = "None"

\* the body holds no measurement rows: no list of them, or an empty one
NoRows == "data" \notin DOMAIN args.body \/ args.body["data"] = <<>>

\* C16: a statistics query of either class on a body without measurement
\* rows, or without a phase list (None or empty), raises ValueError.
C16_ValidationErrors ==
    /\ (StatisticsCalled /\ (NoRows \/ calls = <<None>> \/ calls = <<>>)) =>
            raised = "ValueError"
    /\ (op = "compute_statistics_between_phases" /\ NoRows) => raised = "ValueError"

(***************************************************************************)
(* Properties of the lethality curve                                       *)
(***************************************************************************)
CurveReturned == op = "calcular_mortalidade_intervalos" /\ raised = "none"

\* the measurement rows from the first occurrence of fase_inicial to the
\* first occurrence of fase_final, both included
LethalityWindow ==
    LET fases == args.body["fase"]
        start == fases[FirstOccurrence(fases, args.fase_inicial)][1]
        end   == fases[FirstOccurrence(fases, args.fase_final)][1]
        In(linha) == NotAfter(start, linha[1]) /\ NotAfter(linha[1], end)
    IN  SelectSeq(args.body["data"], In)

\* C17: the list returned by calcular_mortalidade_intervalos has one point for
\* each measurement from the first occurrence of fase_inicial to the first
\* occurrence of fase_final, in order and with its timestamp; the first point
\* carries N0; a second call on the same body returns the same list.
C17_CurvePoints ==
    CurveReturned =>
        /\ Len(returned) = Len(LethalityWindow)
        /\ \A i \in 1..Len(returned) : returned[i][1] = LethalityWindow[i][1]
        /\ returned[1] = <<LethalityWindow[1][1], args.N0>>
        /\ Len(hist) = 2 => hist[1] = hist[2]

\* the seconds from datetime b to datetime a
Elapsed(a, b) == 86400 * (Ordinal(a) - Ordinal(b)) + SecondsOf(a) - SecondsOf(b)

\* the measurement rows the returned points stand for
CurveRows ==
    LET Point(linha) == \E i \in 1..Len(returned) : returned[i][1] = linha[1]
    IN  SelectSeq(args.body["data"], Point)

\* every row of the curve has the same temperature and the same mass of
\* sterilant, and consecutive rows are the same positive time apart
ConstantConditions ==
    /\ \A i \in 1..Len(CurveRows) :
          /\ Len(CurveRows[i]) >= 5
          /\ CurveRows[i][3] = CurveRows[1][3]
          /\ CurveRows[i][5] = CurveRows[1][5]
    /\ \A i \in 2..Len(CurveRows) :
          /\ Elapsed(CurveRows[i][1], CurveRows[i - 1][1]) > 0
          /\ Elapsed(CurveRows[i][1], CurveRows[i - 1][1])
                = Elapsed(CurveRows[2][1], CurveRows[1][1])

\* the population of point i is N0 * 10 ** -(t / D) for the elapsed time t of
\* the point and the D of the curve, or the float 0.0 that it rounds to
ClosedForm(i) ==
    \/ returned[i][2] = Normalise(0, 0)
    \/ /\ returned[i][2].k = "pow"
       /\ returned[i][2].N0 = args.N0
       /\ returned[i][2].s = Elapsed(returned[i][1], returned[1][1])
       /\ returned[i][2].x = returned[2][2].x

\* population a is below population b, for two populations of one curve
Below(a, b) ==
    IF a.k = "pow" /\ b.k = "pow" THEN a.x = b.x /\ a.s > b.s
    ELSE IF a.k = "pow" THEN b = a.N0 /\ a.N0.m > 0 /\ a.s > 0
    ELSE a.k = "num" /\ a.m = 0 /\ (b.k = "pow" \/ b.m > 0)

RECURSIVE GCD(_, _)
GCD(a, b) == IF b = 0 THEN a ELSE GCD(b, a % b)

\* (50 - temp) / 50 + (0.00045 - C) / 0.0045 of the first row of the curve as
\* a fraction in lowest terms, for a whole temperature and a mass in
\* hundredths of kg (0.1 kg for a mass above 50 kg): C = kg / 15000
ExponentOfCurve ==
    LET temp == CurveRows[1][3].m * Pow10(CurveRows[1][3].e)
        mass == CurveRows[1][5].m * Pow10(CurveRows[1][5].e + 2)
        kg   == IF mass > 5000 THEN 10 ELSE mass
        num  == (50 - temp) * 2700 + (675 - kg) * 20
        g    == GCD(IF num < 0 THEN 0 - num ELSE num, 135000)
    IN  <<num \div g, 135000 \div g>>

\* 10 ** -(t / D) is below every positive float: t / D > 323.607..., that is
\* s * 10 ** -x >= 73783 for the s seconds of t and D = 3.8 * 10 ** x minutes
\* (decided for the x of the bounded bodies, between -5 and 1)
Underflows(s) ==
    LET ceil == 0 - ((0 - ExponentOfCurve[1]) \div ExponentOfCurve[2])
    IN  ceil <= 0 /\ s * Pow10(0 - ceil) >= 73783

ProfileLines(r) == NewReader(readers[r].cls, readers[r].file_name).size_header

\* C20: the header line count of a reader is the one of its device profile
\* (25 for Sercon JP LAC210, 64 for Sercon TDS) after any sequence of
\* register_reader_fita, set_size_header and reads, and every header read
\* splits the file at that count.
C20_ProfileLineCount ==
    \A r \in Readers :
        /\ readers[r].size_header = ProfileLines(r)
        /\ DOMAIN hist[r] # {} => hist[r].size_header = ProfileLines(r)


(***************************************************************************)
(* Properties of the body a data object returns                            *)
(***************************************************************************)
\* C21: whenever read_body_fita returns a body, the body carries a 'state'
\* that is one of concluido, abortado, incompleto and erro.
C21_StateInBody ==
    (op = "read_body_fita" /\ do.reader_fita # "none" /\ raised = "none") =>
        /\ "state" \in DOMAIN returned
        /\ returned["state"] \in {"concluido", "abortado", "incompleto", "erro"}


\* C22: a body line made of a time token followed only by numeric tokens is
\* never recorded as a phase: every label stored in the phases holds at least
\* one token that is not a number.
C22_NoNumericLabel ==
    (op = "read_body" /\ raised = "none") =>
        \A i \in 1..Len(FaseOf(returned)) :
            \E k \in 1..Len(Split(FaseOf(returned)[i][2])) :
                float(Split(FaseOf(returned)[i][2])[k]).exc # "none"


\* the phase rows of the lines i..Len(lines_body), each line matched against
\* the phase grammar of the class on its own
RECURSIVE PhaseLinesFrom(_, _, _)
PhaseLinesFrom(cls, lines_body, i) ==
    IF i > Len(lines_body) THEN <<>>
    ELSE _process_phase_line(cls, Strip(lines_body[i]), [data |-> <<>>, fase |-> <<>>]).body_dict.fase
            \o PhaseLinesFrom(cls, lines_body, i + 1)

\* C23: every body line after the first that matches the phase grammar is in
\* the phases of the body read_body returns, in file order, whatever the
\* other lines are, also when no line is processed as a non-phase line.
C23_AllPhasesReturned ==
    (op = "read_body" /\ raised = "none") =>
        FaseOf(returned) = PhaseLinesFrom(args.cls, args.lines_body, 2)


(***************************************************************************)
(* Properties of the reconstructed timestamps of a body                    *)
(***************************************************************************)
\* rows carries datetimes that start on the date of base and pass to the
\* next day exactly where the time of day falls from one row to the next,
\* counted over these rows alone
OwnRollover(rows, base) ==
    /\ rows[1][1].year = base.year /\ rows[1][1].month = base.month /\ rows[1][1].day = base.day
    /\ \A i \in 2..Len(rows) :
          Ordinal(rows[i][1]) - Ordinal(rows[i - 1][1]) =
              IF SecondsOf(rows[i][1]) < SecondsOf(rows[i - 1][1]) THEN 1 ELSE 0

\* rows is a non-empty list whose times were reconstructed
Converted(body, key) ==
    /\ key \in DOMAIN body
    /\ body[key] # <<>>
    /\ "year" \in DOMAIN body[key][1][1]

\* C24: the measurement times and the phase times are reconstructed by two
\* passes, each starting on the base date of the header with a day counter
\* of its own, so the first phase is on the base date whatever the
\* measurements before it did.
C24_SeparatePasses ==
    \A p \in Pairs :
        /\ Converted(do[p].body_fita, "data") =>
              OwnRollover(do[p].body_fita["data"], do[p].header_fita["Data:"])
        /\ Converted(do[p].body_fita, "fase") =>
              OwnRollover(do[p].body_fita["fase"], do[p].header_fita["Data:"])

\* on lac_late, whose first phase line (00:02) follows its second measurement
\* line (00:01, past midnight), the phase is dated before that measurement
C24_Witness ==
    \E p \in Pairs :
        /\ readers[p].file_name = "lac_late"
        /\ Converted(do[p].body_fita, "data")
        /\ Converted(do[p].body_fita, "fase")
        /\ Len(do[p].body_fita["data"]) = 2
        /\ Ordinal(do[p].body_fita["data"][2][1]) = Ordinal(do[p].body_fita["data"][1][1]) + 1
        /\ DtLess(do[p].body_fita["fase"][1][1], do[p].body_fita["data"][2][1])
        /\ DtLess(do[p].body_fita["fase"][1][1], do[p].body_fita["data"][1][1])


\* line.replace(chr(0), '')
WithoutNul(line) == LET Kept(c) == c # "NUL" IN SelectSeq(line, Kept)

\* C25: NUL bytes are removed from a body line before it is matched: read_body
\* gives for a tape with NUL bytes what it gives for the tape without them.
C25_NulStripped ==
    (op = "read_body" /\ \E i \in 1..Len(args.lines_body) : WithoutNul(args.lines_body[i]) # args.lines_body[i]) =>
        \E r \in {read_body(args.cls, [i \in 1..Len(args.lines_body) |-> WithoutNul(args.lines_body[i])], <<>>)} :
            /\ raised = r.exc
            /\ raised = "none" => returned = r.val


(***************************************************************************)
(* The header a body is dated with after another reader is registered      *)
(***************************************************************************)
\* the header read_header_fita gives for the file of reader self on a data
\* object that has read nothing yet
OwnHeader(self) ==
    read_header_fita([NewDataObject EXCEPT !.reader_fita = "own"],
                     [self EXCEPT !.lines_file = <<>>, !.body = <<>>])

\* C27: a body read_body_fita returns with reconstructed timestamps starts
\* on the header date of the file of the reader registered at the time of
\* the call, also after the data object read the file of another reader.
C27_DateOfRegisteredFile ==
    (/\ op = "read_body_fita"
     /\ do.reader_fita # "none"
     /\ raised = "none"
     /\ Reconstructed(returned)) =>
        \E own \in {OwnHeader(readers[do.reader_fita])} :
            /\ own.exc = "none"
            /\ "Data:" \in DOMAIN own.val
            /\ returned["data"][1][1].year = own.val["Data:"].year
            /\ returned["data"][1][1].month = own.val["Data:"].month
            /\ returned["data"][1][1].day = own.val["Data:"].day


(***************************************************************************)
(* Properties of the lethality curve under varying conditions              *)
(***************************************************************************)
\* population a is above population b, as far as the two can be ordered
\* without evaluating a power: a is above 0.0 and b is 0.0, or both are the
\* power of one exponent and a has the shorter time
Above(a, b) ==
    IF a.k = "pow" /\ b.k = "pow" THEN a.x = b.x /\ a.s < b.s
    ELSE IF a.k = "pow" THEN b.k = "num" /\ b.m = 0
    ELSE IF a.k = "num" /\ b.k = "num" THEN a.m > 0 /\ b.m = 0
    ELSE a.k = "num" /\ b.k = "pow" /\ a.m > 0 /\ b.N0 = a /\ b.s > 0

\* C29: whatever the temperatures and the masses of sterilant of the rows,
\* the population of the returned curve never rises from one point to the
\* next and never exceeds N0.
C29_NeverIncreases ==
    CurveReturned =>
        \A i \in 2..Len(returned) :
            /\ ~Above(returned[i][2], returned[i - 1][2])
            /\ ~Above(returned[i][2], args.N0)


(***************************************************************************)
(* Specification SpecDo: one data object with its reader, read and queried *)
(* An index that may be None is the empty tuple for None and the tuple of  *)
(* the index otherwise.                                                    *)
(***************************************************************************)
\* the calls made on the data object in one behaviour, which hist counts
MaxCalls == 3

\* the class and the file of the reader registered on the data object
DoTapes ==
    {<<"SerconJpLac210", "lac_ok">>, <<"SerconJpLac210", "lac_late">>,
     <<"SerconTds", "tds_ok">>, <<"SerconTds", "tds_cut">>}

\* the labels asked for: the two phases of the cycle type and one that no
\* tape carries
DoLabels(cls) == {CyclePhases(cls)[1], CyclePhases(cls)[2], <<"L", "A", "V", "A", "G", "E", "M">>}

\* _converter_tempo_diferenca_str of a timedelta of s seconds: "HH:MM:SS"
converter_tempo_diferenca_str(s) ==
    LET Format02d(n) == IF n < 0 THEN <<"-">> \o ZeroPad(0 - n, 1) ELSE ZeroPad(n, 2)
    IN  Format02d(s \div 3600) \o <<":">> \o Format02d((s % 3600) \div 60)
            \o <<":">> \o Format02d(s % 60)

\* calcular_tempo_entre_fases of the data object.  IndexError and ValueError
\* are raised as they are, every other exception (the KeyError of a body
\* without phases or measurements, the TypeError of a comparison with None
\* or of a difference with a time string) as Exception; msg is str(e).
do_calcular_tempo_entre_fases(body_fita, indice_inicial, indice_final) ==
    LET Wrapped(e) == [exc |-> "Exception", msg |-> <<"E", "r", "r", "o", " ", "a", "o", " ", "c", "a", "l", "c", "u", "l", "a", "r", " ", "t", "e", "m", "p", "o", " ", "e", "n", "t", "r", "e", " ", "f", "a", "s", "e", "s", ":", " ">> \o e]
    IN  IF DOMAIN body_fita = {} \/ "fase" \notin DOMAIN body_fita THEN Wrapped(<<"'", "f", "a", "s", "e", "'">>)
        ELSE IF "data" \notin DOMAIN body_fita THEN Wrapped(<<"'", "d", "a", "t", "a", "'">>)
        ELSE LET fases == body_fita["fase"]
                 data  == body_fita["data"]
                 i     == indice_inicial[1]
                 TypeName(t) == IF "year" \in DOMAIN t THEN <<"d", "a", "t", "e", "t", "i", "m", "e", ".", "d", "a", "t", "e", "t", "i", "m", "e">> ELSE <<"s", "t", "r">>
                 Difference(fim, inicio) ==
                     IF "year" \in DOMAIN fim /\ "year" \in DOMAIN inicio
                     THEN [exc |-> "none",
                           val |-> converter_tempo_diferenca_str(total_seconds(fim, inicio))]
                     ELSE Wrapped(<<"u", "n", "s", "u", "p", "p", "o", "r", "t", "e", "d", " ", "o", "p", "e", "r", "a", "n", "d", " ", "t", "y", "p", "e", "(", "s", ")", " ", "f", "o", "r", " ", "-", ":", " ", "'">> \o TypeName(fim)
                                      \o <<"'", " ", "a", "n", "d", " ", "'">> \o TypeName(inicio) \o <<"'">>)
             IN  IF i # 0 /\ indice_final = <<>>
                 THEN IF data = <<>> \/ i >= Len(fases)
                      THEN [exc |-> "IndexError", msg |-> <<"l", "i", "s", "t", " ", "i", "n", "d", "e", "x", " ", "o", "u", "t", " ", "o", "f", " ", "r", "a", "n", "g", "e">>]
                      ELSE Difference(data[Len(data)][1], fases[i + 1][1])
                 ELSE IF indice_final = <<>>
                 THEN Wrapped(<<"'", ">", "'", " ", "n", "o", "t", " ", "s", "u", "p", "p", "o", "r", "t", "e", "d", " ", "b", "e", "t", "w", "e", "e", "n", " ", "i", "n", "s", "t", "a", "n", "c", "e", "s", " ", "o", "f", " ", "'", "i", "n", "t", "'", " ", "a", "n", "d", " ", "'", "N", "o", "n", "e", "T", "y", "p", "e", "'">>)
                 ELSE IF i > indice_final[1]
                 THEN [exc |-> "ValueError",
                       msg |-> <<"O", " ", "i", "n", "d", "i", "c", "e", " ", "i", "n", "i", "c", "i", "a", "l", " ", "d", "e", "v", "e", " ", "s", "e", "r", " ", "m", "e", "n", "o", "r", " ", "q", "u", "e", " ", "o", " ", "i", "n", "d", "i", "c", "e", " ", "f", "i", "n", "a", "l">>]
                 ELSE IF ~(i < Len(fases) /\ indice_final[1] < Len(fases))
                 THEN [exc |-> "IndexError", msg |-> <<"I", "n", "d", "i", "c", "e", "s", " ", "f", "o", "r", "a", " ", "d", "o", " ", "i", "n", "t", "e", "r", "v", "a", "l", "o", " ", "v", "a", "l", "i", "d", "o">>]
                 ELSE Difference(fases[indice_final[1] + 1][1], fases[i + 1][1])

\* the local variable duration of calcular_estatisticas_ciclo before its
\* first assignment
Unbound == <<"unbound">>

\* calcular_estatisticas_ciclo of the data object: the dict estatisticas and
\* the warnings.  What calcular_estatisticas_ciclo_entre_fases raises is not
\* caught; reading duration before its first assignment is an
\* UnboundLocalError.
calcular_estatisticas_ciclo(python, fases, body_fita) ==
    LET Present(fase) == FirstOccurrence(body_fita["fase"], fase) # 0
        index(fase) == FirstOccurrence(body_fita["fase"], fase) - 1
        RECURSIVE proxima(_, _, _)
        \* the for loop over fases[i+1:] from position j on: the label found
        \* and the warnings for the labels passed over
        proxima(fase_atual, j, error_msg) ==
            IF j > Len(fases) THEN [fase |-> None, error_msg |-> error_msg]
            ELSE IF Present(fases[j]) THEN [fase |-> fases[j], error_msg |-> error_msg]
            ELSE proxima(fase_atual, j + 1,
                    Append(error_msg, <<"N", "a", "o", " ", "f", "o", "i", " ", "p", "o", "s", "s", "i", "v", "e", "l", " ", "e", "n", "c", "o", "n", "t", "r", "a", "r", " ", "a", " ", "p", "r", "o", "x", "i", "m", "a", " ", "f", "a", "s", "e", " ">> \o fases[j]
                                          \o <<" ", "p", "a", "r", "a", " ">> \o fase_atual \o <<":", " ", "'">> \o fases[j]
                                          \o <<"'", " ", "i", "s", " ", "n", "o", "t", " ", "i", "n", " ", "l", "i", "s", "t">>))
        RECURSIVE loop(_, _, _, _)
        \* the for loop over range(len(fases) - 1) from position i on
        loop(i, estatisticas, error_msg, duration) ==
            IF i > Len(fases) - 1
            THEN [exc |-> "none", val |-> <<estatisticas, error_msg>>]
            ELSE IF ~Present(fases[i])
            THEN loop(i + 1, estatisticas,
                      Append(error_msg, <<"A", " ", "f", "a", "s", "e", " ">> \o fases[i] \o <<" ", "n", "a", "o", " ", "f", "o", "i", " ", "e", "n", "c", "o", "n", "t", "r", "a", "d", "a", ":", " ", "'">>
                                            \o fases[i] \o <<"'", " ", "i", "s", " ", "n", "o", "t", " ", "i", "n", " ", "l", "i", "s", "t">>),
                      duration)
            ELSE The({ The({
                    IF tempo.exc = "ValueError"
                    THEN loop(i + 1, estatisticas,
                              Append(p.error_msg, <<"A", " ", "f", "a", "s", "e", " ">> \o fases[i] \o <<" ", "n", "a", "o", " ", "f", "o", "i", " ", "e", "n", "c", "o", "n", "t", "r", "a", "d", "a", ":", " ">>
                                                      \o tempo.msg),
                              duration)
                    ELSE The({
                        LET duration2 == IF tempo.exc = "none" THEN tempo.val ELSE duration
                            caught == IF tempo.exc = "none" THEN p.error_msg
                                      ELSE Append(p.error_msg,
                                                  <<"E", "r", "r", "o", " ", "a", "o", " ", "c", "a", "l", "c", "u", "l", "a", "r", " ", "e", "s", "t", "a", "t", "i", "s", "t", "i", "c", "a", "s", " ", "d", "o", " ", "c", "i", "c", "l", "o", " ">> \o fases[i]
                                                      \o <<":", " ">> \o tempo.msg)
                            warned == IF p.fase = None
                                      THEN Append(caught,
                                                  <<"N", "a", "o", " ", "f", "o", "i", " ", "p", "o", "s", "s", "i", "v", "e", "l", " ", "e", "n", "c", "o", "n", "t", "r", "a", "r", " ", "a", " ", "p", "r", "o", "x", "i", "m", "a", " ", "f", "a", "s", "e", " ", "p", "a", "r", "a", " ">>
                                                      \o fases[i] \o <<".", " ", "C", "a", "l", "c", "u", "l", "a", "n", "d", "o", " ", "a", "t", "e", " ", "o", " ", "f", "i", "n", "a", "l", " ", "d", "o", " ", "c", "i", "c", "l", "o">>)
                                      ELSE caught
                        IN  IF stats.exc # "none" THEN [exc |-> stats.exc]
                            ELSE IF duration2 = Unbound THEN [exc |-> "UnboundLocalError"]
                            ELSE loop(i + 1,
                                      SetItem(estatisticas, fases[i],
                                              <<<<<<"D", "u", "r", "a", "t", "i", "o", "n">>, duration2>>>> \o stats.val),
                                      warned, duration2)
                        : stats \in {compute_statistics_between_phases(
                                        "DataObjectFitaDigital", python, fases[i], p.fase,
                                        body_fita)} })
                    : tempo \in {do_calcular_tempo_entre_fases(
                                    body_fita, <<index(fases[i])>>,
                                    IF p.fase = None THEN <<>> ELSE <<index(p.fase)>>)} })
                    : p \in {proxima(fases[i], i + 1, error_msg)} })
    IN  IF DOMAIN body_fita = {} \/ "data" \notin DOMAIN body_fita THEN [exc |-> "ValueError"]
        ELSE IF fases = <<None>> \/ fases = <<>> THEN [exc |-> "ValueError"]
        ELSE IF "fase" \notin DOMAIN body_fita THEN [exc |-> "KeyError"]
        ELSE loop(1, <<>>, <<>>, Unbound)

\* the lists of phases asked statistics for: those of the cycle type, each
\* of its phases followed by a label that no tape carries, and the two in
\* reverse order
DoPhaseLists(cls) ==
    {CyclePhases(cls),
     <<CyclePhases(cls)[1], <<"L", "A", "V", "A", "G", "E", "M">>>>,
     <<CyclePhases(cls)[2], <<"L", "A", "V", "A", "G", "E", "M">>>>,
     <<CyclePhases(cls)[2], CyclePhases(cls)[1], <<"L", "A", "V", "A", "G", "E", "M">>>>}

InitDo ==
    /\ op = "init"
    /\ args = <<>>
    /\ raised = "none"
    /\ returned = <<>>
    /\ calls = <<>>
    /\ \E tape \in DoTapes :
          /\ readers = [r \in {"r1"} |-> NewReader(tape[1], tape[2])]
          /\ do = [NewDataObject EXCEPT !.reader_fita = "r1"]
    /\ hist = 0

\* what a query leaves behind: it assigns nothing on the data object or on
\* the reader
DoQueried(name, a, r) ==
    /\ hist < MaxCalls
    /\ op' = name
    /\ args' = a
    /\ raised' = r.exc
    /\ returned' = IF r.exc = "none" THEN r.val ELSE <<>>
    /\ calls' = <<name>>
    /\ hist' = hist + 1
    /\ UNCHANGED <<do, readers>>

\* do.read_header_fita() or do.read_body_fita()
DoRead(name) ==
    /\ hist < MaxCalls
    /\ \E r \in {IF name = "read_header_fita" THEN read_header_fita(do, readers["r1"])
                 ELSE read_body_fita(do, readers["r1"])} :
          /\ op' = name
          /\ args' = <<>>
          /\ raised' = r.exc
          /\ returned' = IF r.exc = "none" THEN r.val ELSE <<>>
          /\ calls' = r.calls
          /\ do' = r.do
          /\ readers' = [readers EXCEPT !["r1"] = r.self]
    /\ hist' = hist + 1

\* do.compute_statistics(phases) with the phases of the cycle type
DoStatistics(python) ==
    /\ hist < MaxCalls
    /\ \E r \in {do_compute_statistics(python, CyclePhases(readers["r1"].cls), do, readers["r1"])} :
          /\ op' = "compute_statistics"
          /\ args' = [python |-> python]
          /\ raised' = r.exc
          /\ returned' = IF r.exc = "none" THEN r.val ELSE <<>>
          /\ calls' = r.calls
          /\ do' = r.do
          /\ readers' = [readers EXCEPT !["r1"] = r.self]
    /\ hist' = hist + 1

\* do.reader_fita.calcular_tempo_entre_fases(fase_inicio, fase_fim)
DoReaderTempoEntreFases(fase_inicio, fase_fim) ==
    DoQueried("reader.calcular_tempo_entre_fases",
              [fase_inicio |-> fase_inicio, fase_fim |-> fase_fim],
              [exc |-> "none",
               val |-> calcular_tempo_entre_fases(readers["r1"].body, fase_inicio, fase_fim)])

\* do.reader_fita.compute_statistics_between_phases(fase_inicial, fase_final,
\* body=do.body_fita)
DoBetweenPhases(python, fase_inicial, fase_final) ==
    DoQueried("compute_statistics_between_phases",
              [python |-> python, fase_inicial |-> fase_inicial, fase_final |-> fase_final],
              compute_statistics_between_phases(readers["r1"].cls, python, fase_inicial,
                                                fase_final, do.body_fita))

\* do.calcular_mortalidade_intervalos(1000000, fase_inicial, fase_final,
\* index_eto=3, index_temp=1)
DoMortalidade(fase_inicial, fase_final) ==
    DoQueried("calcular_mortalidade_intervalos",
              [fase_inicial |-> fase_inicial, fase_final |-> fase_final],
              calcular_mortalidade_intervalos(do.body_fita, Normalise(1000000, 0),
                                              fase_inicial, fase_final, 3, 1))

\* do.calcular_tempo_entre_fases(indice_inicial, indice_final)
DoTempoEntreFases(indice_inicial, indice_final) ==
    DoQueried("calcular_tempo_entre_fases",
              [indice_inicial |-> indice_inicial, indice_final |-> indice_final],
              do_calcular_tempo_entre_fases(do.body_fita, indice_inicial, indice_final))

\* do.calcular_estatisticas_ciclo(fases)
DoEstatisticasCiclo(python, fases) ==
    DoQueried("calcular_estatisticas_ciclo", [python |-> python, fases |-> fases],
              calcular_estatisticas_ciclo(python, fases, do.body_fita))

NextDo ==
    \/ \E name \in {"read_header_fita", "read_body_fita"} : DoRead(name)
    \/ \E python \in {"3.7", "3.8"} : DoStatistics(python)
    \/ \E a, b \in DoLabels(readers["r1"].cls) : DoReaderTempoEntreFases(a, b)
    \/ \E python \in {"3.7", "3.8"}, a, b \in DoLabels(readers["r1"].cls) :
          DoBetweenPhases(python, a, b)
    \/ \E a, b \in DoLabels(readers["r1"].cls) : DoMortalidade(a, b)
    \/ \E i \in 0..2, j \in {<<>>} \cup {<<n>> : n \in 0..2} :
          DoTempoEntreFases(<<i>>, j)
    \/ \E python \in {"3.7", "3.8"}, fases \in DoPhaseLists(readers["r1"].cls) :
          DoEstatisticasCiclo(python, fases)

SpecDo == InitDo /\ [][NextDo]_vars


(***************************************************************************)
(* Properties of the queries on a data object: what they leave unchanged   *)
(***************************************************************************)
\* the duration, statistics and lethality queries
Queries ==
    {"compute_statistics", "reader.calcular_tempo_entre_fases",
     "compute_statistics_between_phases", "calcular_mortalidade_intervalos",
     "calcular_tempo_entre_fases", "calcular_estatisticas_ciclo"}

\* the data object holds measurement rows read from the tape
HoldsData == DOMAIN do.body_fita # {} /\ "data" \in DOMAIN do.body_fita

\* C26: a duration, statistics or lethality query, whether it succeeds or
\* fails, leaves the header and the body of the data object as they were.
C26_QueriesChangeNothing ==
    [][ op' \in Queries =>
            /\ do'.header_fita = do.header_fita
            /\ do'.body_fita = do.body_fita
      ]_vars

\* C26 (amended): a duration, statistics or lethality query, whether it
\* succeeds or fails, leaves the header and the body of the data object and
\* of its reader as they were, except compute_statistics on a data object
\* that holds no measurement rows: this one reads the tape first, and leaves
\* the data object and the reader as read_all_fita leaves them.
C26_QueriesChangeNothingLoaded ==
    [][ op' \in Queries =>
            IF op' = "compute_statistics" /\ ~HoldsData
            THEN \E r \in {read_all_fita(do, readers["r1"])} :
                    do' = r.do /\ readers'["r1"] = r.self
            ELSE do' = do /\ readers' = readers
      ]_vars

\* a statistics query that succeeded on a data object that held its rows
\* already, with the body it held before
C26_Witness ==
    /\ op = "compute_statistics"
    /\ raised = "none"
    /\ calls = <<"do.compute_statistics", "compute_statistics">>
    /\ "state" \in DOMAIN do.body_fita
    /\ do.body_fita["data"] # <<>>


(***************************************************************************)
(* Properties of the durations of the data object                          *)
(***************************************************************************)
\* the body of the data object holds phases and measurements with
\* reconstructed timestamps
PhasesAndRows ==
    /\ HoldsData
    /\ "fase" \in DOMAIN do.body_fita
    /\ do.body_fita["data"] # <<>>
    /\ \A i \in 1..Len(do.body_fita["data"]) : "year" \in DOMAIN do.body_fita["data"][i][1]
    /\ \A i \in 1..Len(do.body_fita["fase"]) : "year" \in DOMAIN do.body_fita["fase"][i][1]

\* the time from the phase of 0-based index i to the phase of 0-based index
\* j, or to the last measurement when j is None, as "HH:MM:SS"
DurationFrom(i, j) ==
    LET rows == do.body_fita["data"]
        end  == IF j = <<>> THEN rows[Len(rows)][1] ELSE do.body_fita["fase"][j[1] + 1][1]
    IN  converter_tempo_diferenca_str(Elapsed(end, do.body_fita["fase"][i + 1][1]))

\* the position in fases of the first label after position i that the body
\* carries, 0 if there is none
NextCarried(fases, i) ==
    LET Carried(j) == FirstOccurrence(do.body_fita["fase"], fases[j]) # 0
    IN  IF \E j \in (i + 1)..Len(fases) : Carried(j)
        THEN CHOOSE j \in (i + 1)..Len(fases) : Carried(j) /\ \A k \in (i + 1)..(j - 1) : ~Carried(k)
        ELSE 0

\* C30: calcular_tempo_entre_fases(i, None) returns the time from phase i to
\* the last measurement for every valid index i, 0 included; and the
\* Duration calcular_estatisticas_ciclo stores for a phase is the one of
\* that phase, never that of an earlier phase or an unassigned variable.
C30_DurationOfEachPhase ==
    /\ (/\ op = "calcular_tempo_entre_fases"
        /\ args.indice_final = <<>>
        /\ PhasesAndRows
        /\ args.indice_inicial[1] < Len(do.body_fita["fase"])) =>
            /\ raised = "none"
            /\ returned = DurationFrom(args.indice_inicial[1], <<>>)
    /\ (op = "calcular_estatisticas_ciclo" /\ PhasesAndRows) =>
            /\ raised # "UnboundLocalError"
            /\ raised = "none" =>
                  \A n \in 1..Len(returned[1]) :
                      \E i \in 1..(Len(args.fases) - 1) :
                          /\ args.fases[i] = returned[1][n][1]
                          /\ returned[1][n][2][1][2] =
                                DurationFrom(FirstOccurrence(do.body_fita["fase"], args.fases[i]) - 1,
                                             IF NextCarried(args.fases, i) = 0 THEN <<>>
                                             ELSE <<FirstOccurrence(do.body_fita["fase"],
                                                        args.fases[NextCarried(args.fases, i)]) - 1>>)


(***************************************************************************)
(* Specification SpecCycle: the workflow of one cycle record               *)
(* do is the record (state, start_date, end_date), args the record as it   *)
(* was created, hist the clock that fields.Datetime.now() reads.  A date   *)
(* is the tuple of its time, and the empty tuple while the field is not    *)
(* set.                                                                    *)
(***************************************************************************)
\* the latest time the clock reaches
MaxNow == 3

\* self.write(vals) followed by the constraint _check_dates on the fields
\* written: a start_date after the end_date is a ValidationError, which
\* leaves the record as it was
write(self, vals) ==
    LET written == [f \in DOMAIN self |-> IF f \in DOMAIN vals THEN vals[f] ELSE self[f]]
    IN  IF /\ {"start_date", "end_date"} \cap DOMAIN vals # {}
           /\ written.start_date # <<>> /\ written.end_date # <<>>
           /\ written.start_date[1] > written.end_date[1]
        THEN [exc |-> "ValidationError", self |-> self]
        ELSE [exc |-> "none", self |-> written]

action_start(self, now) ==
    IF self.state # "aguardando" THEN [exc |-> "UserError", self |-> self]
    ELSE write(self, [state |-> "em_andamento", start_date |-> <<now>>])

\* action_conclude without its test of the state
action_conclude_anystate(self, now) ==
    write(self, [state |-> "concluido", end_date |-> <<now>>])

action_conclude(self, now) ==
    IF self.state # "em_andamento" THEN [exc |-> "UserError", self |-> self]
    ELSE write(self, [state |-> "concluido", end_date |-> <<now>>])

action_cancel(self, now) ==
    IF self.state \in {"concluido", "cancelado"} THEN [exc |-> "UserError", self |-> self]
    ELSE write(self, [state |-> "cancelado", end_date |-> <<now>>])

action_pause(self, now) ==
    IF self.state # "em_andamento" THEN [exc |-> "UserError", self |-> self]
    ELSE write(self, [state |-> "pausado"])

action_resume(self, now) ==
    IF self.state # "pausado" THEN [exc |-> "UserError", self |-> self]
    ELSE write(self, [state |-> "em_andamento"])

\* a record as it is created: in any state of the selection (aguardando by
\* default), started now or planned for later, and with no end date or, in
\* a state that no action leads to, the end date of the cycle it records
InitCycle ==
    /\ op = "init"
    /\ raised = "none"
    /\ returned = <<>>
    /\ calls = <<>>
    /\ readers = <<>>
    /\ hist = 0
    /\ do \in { r \in [state : {"em_andamento", "concluido", "cancelado", "erro", "abortado",
                               "aguardando", "pausado"},
                      start_date : {<<0>>, <<MaxNow>>},
                      end_date : {<<>>, <<0>>}] :
                  r.end_date # <<>> => r.state \in {"erro", "abortado"} /\ r.start_date = <<0>> }
    /\ args = do

\* one of the five buttons of the record
CallAction(name) ==
    \E r \in {CASE name = "action_start" -> action_start(do, hist)
                [] name = "action_conclude" -> action_conclude(do, hist)
                [] name = "action_cancel" -> action_cancel(do, hist)
                [] name = "action_pause" -> action_pause(do, hist)
                [] name = "action_resume" -> action_resume(do, hist)} :
        /\ op' = name
        /\ raised' = r.exc
        /\ calls' = <<name>>
        /\ do' = r.self
        /\ UNCHANGED <<args, returned, readers, hist>>

\* time passes
Tick ==
    /\ hist < MaxNow
    /\ hist' = hist + 1
    /\ UNCHANGED <<op, args, raised, returned, calls, readers, do>>

NextCycle ==
    \/ \E name \in {"action_start", "action_conclude", "action_cancel", "action_pause",
                    "action_resume"} : CallAction(name)
    \/ Tick

SpecCycle == InitCycle /\ [][NextCycle]_vars

(***************************************************************************)
(* Properties of the workflow of a cycle record                            *)
(***************************************************************************)
WorkflowActions ==
    {"action_start", "action_conclude", "action_cancel", "action_pause", "action_resume"}

\* the states an action may be called in, and the state it leads to
CalledIn(name) ==
    CASE name = "action_start" -> {"aguardando"}
      [] name = "action_conclude" -> {"em_andamento"}
      [] name = "action_pause" -> {"em_andamento"}
      [] name = "action_resume" -> {"pausado"}
      [] name = "action_cancel" -> {"em_andamento", "erro", "abortado", "aguardando", "pausado"}

LeadsTo(name) ==
    CASE name = "action_start" -> "em_andamento"
      [] name = "action_conclude" -> "concluido"
      [] name = "action_pause" -> "pausado"
      [] name = "action_resume" -> "em_andamento"
      [] name = "action_cancel" -> "cancelado"

====
